---- MODULE Spec2Model ----
(***************************************************************************)
(* Session coordination and submission engine of the name-athlete backend  *)
(* (backend/session_manager.py, backend/events.py, backend/models.py).     *)
(*                                                                         *)
(* The process is one asyncio event loop: a handler runs without           *)
(* interruption from one await to the next, so every action below is the   *)
(* code between two suspension points of one coroutine.                    *)
(***************************************************************************)
EXTENDS Integers, Sequences, FiniteSets, TLC

(***************************************************************************)
(* Bounds of the model.                                                    *)
(***************************************************************************)
\* the clock has sub-second resolution: this many clock units per second
UnitsPerSecond == 2
\* how many times the clock advances in one behaviour
MaxTicks == 3
\* how many submit_athlete handlers may be in flight at once
MaxSubmits == 2
\* how many timer tasks may exist (not yet finished) at once
MaxTimers == 2
\* cap on the audit trail of rejected submissions
MaxRejected == 2
\* cap on the accepted submissions when the library is driven directly
MaxAthletes == 2

(***************************************************************************)
(* Program constants.                                                      *)
(***************************************************************************)
\* timedelta(hours=2), in seconds
GameDurationSeconds == 7200
\* timedelta(minutes=5), in seconds
GraceSeconds == 300

GameDuration == GameDurationSeconds * UnitsPerSecond

(***************************************************************************)
(* Input domains.                                                          *)
(***************************************************************************)
Codes == {"A"}
\* a code no session has, and the absent field
UnknownCode == "ZZZZZZ"
Missing == "None"
CodeInputs == Codes \cup {UnknownCode, Missing}
Sids == {"s1", "s2"}
Users == {"alice", "bob"}
UserInputs == Users \cup {Missing}
\* submitted names (one the sanitizer rejects), sport Q-IDs (one not in
\* the sports cache), hints, and the entities the resolver may answer with
RawNames == {"Messi", " Messi ", "x"}
NameInputs == RawNames \cup {"Leo Messi", Missing}
NormalizedNames == {"messi", "leo messi"}
Sports == {"Q2736", "Q0"}
Hints == {Missing, "psg"}
Entities == {"Q615", "Q11571"}
\* clock advances: one unit, one second, the whole game duration
ClockSteps == {1, UnitsPerSecond, GameDuration}

\* Optional[...] values: None is the empty tuple, a value v is <<v>>
None == <<>>
Some(v) == <<v>>
IsNone(o) == o = <<>>
Val(o) == o[1]

EmptyMap == [x \in {} |-> {}]
MapRemove(f, k) == [x \in (DOMAIN f) \ {k} |-> f[x]]
MapPut(f, k, v) == [x \in (DOMAIN f) \cup {k} |-> IF x = k THEN v ELSE f[x]]
Max(a, b) == IF a >= b THEN a ELSE b
\* Python int() of a quotient: truncation towards zero
TruncDiv(a, b) == IF a >= 0 THEN a \div b ELSE -((-a) \div b)
\* Python truthiness of an Optional[str]
Truthy(s) == s # Missing /\ s # ""

VARIABLES
    sessions,     \* session_manager.sessions: code -> Session
    now,          \* datetime.utcnow(), in clock units
    ticks,        \* how many times the clock has advanced
    timer_tasks,  \* events.timer_tasks: code -> timer task id
    timers,       \* the run_timer tasks: id -> [code, pc, wake]
    starting,     \* codes whose handle_start_game is suspended at its emit
    submits,      \* the handle_submit_athlete coroutines: slot -> locals
    ret,          \* a direct call into session_manager that has just returned
    game_ended    \* room -> how many `game_ended` events were emitted to it

vars == <<sessions, now, ticks, timer_tasks, timers, starting, submits, ret, game_ended>>

(***************************************************************************)
(* sio.emit: the event, the room it goes to, and what of the payload the   *)
(* properties need.                                                        *)
(***************************************************************************)
Emit(event, room, msg, val) == [event |-> event, room |-> room, msg |-> msg, val |-> val]
Error(sid, msg) == <<Emit("error", sid, msg, None)>>

(***************************************************************************)
(* session_manager.py.  Every operator takes the sessions dict (and the    *)
(* clock where the code reads it) and yields the return value and the      *)
(* dict afterwards.                                                        *)
(***************************************************************************)
Session(host, t) ==
    [ status |-> "waiting",
      created_at |-> t,
      started_at |-> None,
      ends_at |-> None,
      host_username |-> host,
      athletes |-> <<>>,
      athlete_names |-> {},
      athlete_entity_ids |-> {},
      connected_users |-> EmptyMap,
      disconnected_users |-> EmptyMap,
      rejected_submissions |-> <<>>,
      is_paused |-> FALSE,
      paused_at |-> None,
      time_remaining_at_pause |-> None ]

Ret(r, ss) == [ret |-> r, sessions |-> ss]

create_session(ss, code, host, t) == MapPut(ss, code, Session(host, t))

get_session(ss, code) == code \in DOMAIN ss

\* start_session without its status check
start_session_unguarded(ss, code, t) ==
    IF code \notin DOMAIN ss THEN Ret(FALSE, ss)
    ELSE Ret(TRUE, [ss EXCEPT ![code].status = "active",
                              ![code].started_at = Some(t),
                              ![code].ends_at = Some(t + GameDuration)])

start_session(ss, code, t) ==
    IF code \notin DOMAIN ss THEN Ret(FALSE, ss)
    ELSE IF ss[code].status # "waiting" THEN Ret(FALSE, ss)
    ELSE Ret(TRUE, [ss EXCEPT ![code].status = "active",
                              ![code].started_at = Some(t),
                              ![code].ends_at = Some(t + GameDuration)])

\* end_session refusing a session that is already completed
end_session_once(ss, code) ==
    IF code \notin DOMAIN ss THEN Ret(FALSE, ss)
    ELSE IF ss[code].status = "completed" THEN Ret(FALSE, ss)
    ELSE Ret(TRUE, [ss EXCEPT ![code].status = "completed"])

end_session(ss, code) ==
    IF code \notin DOMAIN ss THEN Ret(FALSE, ss)
    ELSE Ret(TRUE, [ss EXCEPT ![code].status = "completed"])

\* pause_session without `remaining = max(remaining, 0)`
pause_session_no_clamp(ss, code, t) ==
    IF code \notin DOMAIN ss THEN Ret(None, ss)
    ELSE IF ss[code].status # "active" \/ ss[code].is_paused THEN Ret(None, ss)
    ELSE LET remaining == TruncDiv(Val(ss[code].ends_at) - t, UnitsPerSecond)
         IN  Ret(Some(remaining),
                 [ss EXCEPT ![code].is_paused = TRUE,
                            ![code].paused_at = Some(t),
                            ![code].time_remaining_at_pause = Some(remaining)])

pause_session(ss, code, t) ==
    IF code \notin DOMAIN ss THEN Ret(None, ss)
    ELSE IF ss[code].status # "active" \/ ss[code].is_paused THEN Ret(None, ss)
    ELSE LET remaining == Max(TruncDiv(Val(ss[code].ends_at) - t, UnitsPerSecond), 0)
         IN  Ret(Some(remaining),
                 [ss EXCEPT ![code].is_paused = TRUE,
                            ![code].paused_at = Some(t),
                            ![code].time_remaining_at_pause = Some(remaining)])

\* resume_session counting the stored seconds from the instant of the pause
resume_session_from_pause(ss, code, t) ==
    IF code \notin DOMAIN ss THEN Ret(None, ss)
    ELSE IF ss[code].status # "active" \/ ~ss[code].is_paused THEN Ret(None, ss)
    ELSE LET stored == ss[code].time_remaining_at_pause
             remaining == IF IsNone(stored) THEN 0 ELSE Val(stored)
             new_end == Some(Val(ss[code].paused_at) + remaining * UnitsPerSecond)
         IN  Ret(new_end,
                 [ss EXCEPT ![code].ends_at = new_end,
                            ![code].is_paused = FALSE,
                            ![code].paused_at = None,
                            ![code].time_remaining_at_pause = None])

\* resume_session without the new ends_at
resume_session_keeps_end(ss, code, t) ==
    IF code \notin DOMAIN ss THEN Ret(None, ss)
    ELSE IF ss[code].status # "active" \/ ~ss[code].is_paused THEN Ret(None, ss)
    ELSE Ret(ss[code].ends_at,
             [ss EXCEPT ![code].is_paused = FALSE,
                        ![code].paused_at = None,
                        ![code].time_remaining_at_pause = None])

resume_session(ss, code, t) ==
    IF code \notin DOMAIN ss THEN Ret(None, ss)
    ELSE IF ss[code].status # "active" \/ ~ss[code].is_paused THEN Ret(None, ss)
    ELSE LET stored == ss[code].time_remaining_at_pause
             \* `time_remaining_at_pause or 0`
             remaining == IF IsNone(stored) THEN 0 ELSE Val(stored)
             new_end == Some(t + remaining * UnitsPerSecond)
         IN  Ret(new_end,
                 [ss EXCEPT ![code].ends_at = new_end,
                            ![code].is_paused = FALSE,
                            ![code].paused_at = None,
                            ![code].time_remaining_at_pause = None])

Athlete(name, normalized_name, sport, submitted_by, t, entity_id, hint, canonical_name) ==
    [ name |-> name, normalized_name |-> normalized_name, sport |-> sport,
      submitted_by |-> submitted_by, submitted_at |-> t, validated |-> TRUE,
      entity_id |-> entity_id, hint |-> hint, canonical_name |-> canonical_name ]

\* add_athlete without the tracking of the entity id
add_athlete_without_entity_id(ss, code, athlete) ==
    IF code \notin DOMAIN ss THEN Ret(FALSE, ss)
    ELSE Ret(TRUE,
             [ss EXCEPT ![code].athletes = Append(@, athlete),
                        ![code].athlete_names = @ \cup {athlete.normalized_name}])

add_athlete(ss, code, athlete) ==
    IF code \notin DOMAIN ss THEN Ret(FALSE, ss)
    ELSE Ret(TRUE,
             [ss EXCEPT ![code].athletes = Append(@, athlete),
                        ![code].athlete_names = @ \cup {athlete.normalized_name},
                        ![code].athlete_entity_ids =
                            IF Truthy(athlete.entity_id) THEN @ \cup {athlete.entity_id} ELSE @])

\* add_rejected_submission putting the newest record first
add_rejected_submission_newest_first(ss, code, name, sport, username, reason, t) ==
    IF code \notin DOMAIN ss THEN Ret(FALSE, ss)
    ELSE Ret(TRUE,
             [ss EXCEPT ![code].rejected_submissions =
                            <<[name |-> name, sport |-> sport, username |-> username,
                               reason |-> reason, submitted_at |-> t]>> \o @])

add_rejected_submission(ss, code, name, sport, username, reason, t) ==
    IF code \notin DOMAIN ss THEN Ret(FALSE, ss)
    ELSE Ret(TRUE,
             [ss EXCEPT ![code].rejected_submissions =
                            Append(@, [name |-> name, sport |-> sport, username |-> username,
                                       reason |-> reason, submitted_at |-> t])])

\* is_duplicate falling through to the name check when an entity id is given
is_duplicate_also_by_name(ss, code, normalized_name, entity_id) ==
    IF code \notin DOMAIN ss THEN FALSE
    ELSE \/ Truthy(entity_id) /\ entity_id \in ss[code].athlete_entity_ids
         \/ normalized_name \in ss[code].athlete_names

is_duplicate(ss, code, normalized_name, entity_id) ==
    IF code \notin DOMAIN ss THEN FALSE
    ELSE IF Truthy(entity_id) THEN entity_id \in ss[code].athlete_entity_ids
    ELSE normalized_name \in ss[code].athlete_names

\* get_non_duplicate_entity_ids keeping the ids the session holds
get_non_duplicate_entity_ids_inverted(ss, code, entity_ids) ==
    IF code \notin DOMAIN ss THEN entity_ids
    ELSE SelectSeq(entity_ids, LAMBDA eid : eid \in ss[code].athlete_entity_ids)

get_non_duplicate_entity_ids(ss, code, entity_ids) ==
    IF code \notin DOMAIN ss THEN entity_ids
    ELSE SelectSeq(entity_ids, LAMBDA eid : eid \notin ss[code].athlete_entity_ids)

\* is_host answering for membership: true of every name connected to the session
is_host_if_connected(ss, code, username) ==
    IF code \notin DOMAIN ss THEN FALSE
    ELSE \E sid \in DOMAIN ss[code].connected_users : ss[code].connected_users[sid] = username

is_host(ss, code, username) ==
    IF code \notin DOMAIN ss THEN FALSE
    ELSE ss[code].host_username = username

\* dict.get(sid): None when the sid is not a key
ConnectedName(s, sid) ==
    IF sid \in DOMAIN s.connected_users THEN s.connected_users[sid] ELSE Missing

SubmissionsBy(s, username) ==
    Cardinality({i \in 1..Len(s.athletes) : s.athletes[i].submitted_by = username})

\* add_connected_user leaving the disconnect record of the name in place
add_connected_user_keeping_record(ss, code, socket_id, username) ==
    IF code \notin DOMAIN ss THEN Ret(FALSE, ss)
    ELSE LET s == ss[code]
             stale_sids == {sid \in DOMAIN s.connected_users :
                               s.connected_users[sid] = username}
             cleaned == [sid \in (DOMAIN s.connected_users) \ stale_sids |->
                            s.connected_users[sid]]
         IN  Ret(TRUE, [ss EXCEPT ![code].connected_users = MapPut(cleaned, socket_id, username)])

\* add_connected_user without the clean-up of the stale socket ids
add_connected_user_keeping_stale(ss, code, socket_id, username) ==
    IF code \notin DOMAIN ss THEN Ret(FALSE, ss)
    ELSE LET s == ss[code]
             disc == IF username \in DOMAIN s.disconnected_users
                     THEN MapRemove(s.disconnected_users, username)
                     ELSE s.disconnected_users
         IN  Ret(TRUE, [ss EXCEPT ![code].connected_users =
                                      MapPut(s.connected_users, socket_id, username),
                                  ![code].disconnected_users = disc])

add_connected_user(ss, code, socket_id, username) ==
    IF code \notin DOMAIN ss THEN Ret(FALSE, ss)
    ELSE LET s == ss[code]
             stale_sids == {sid \in DOMAIN s.connected_users :
                               s.connected_users[sid] = username}
             cleaned == [sid \in (DOMAIN s.connected_users) \ stale_sids |->
                            s.connected_users[sid]]
             disc == IF username \in DOMAIN s.disconnected_users
                     THEN MapRemove(s.disconnected_users, username)
                     ELSE s.disconnected_users
         IN  Ret(TRUE, [ss EXCEPT ![code].connected_users = MapPut(cleaned, socket_id, username),
                                  ![code].disconnected_users = disc])

\* remove_connected_user recording the submissions of every player
remove_connected_user_counting_all(ss, code, socket_id, t) ==
    IF code \notin DOMAIN ss THEN Ret(Missing, ss)
    ELSE IF socket_id \notin DOMAIN ss[code].connected_users THEN Ret(Missing, ss)
    ELSE LET s == ss[code]
             username == s.connected_users[socket_id]
             info == [disconnected_at |-> t, submissions_count |-> Len(s.athletes)]
         IN  Ret(username,
                 [ss EXCEPT ![code].connected_users = MapRemove(s.connected_users, socket_id),
                            ![code].disconnected_users =
                                MapPut(s.disconnected_users, username, info)])

remove_connected_user(ss, code, socket_id, t) ==
    IF code \notin DOMAIN ss THEN Ret(Missing, ss)
    ELSE IF socket_id \notin DOMAIN ss[code].connected_users THEN Ret(Missing, ss)
    ELSE LET s == ss[code]
             username == s.connected_users[socket_id]
             info == [disconnected_at |-> t,
                      submissions_count |-> SubmissionsBy(s, username)]
         IN  Ret(username,
                 [ss EXCEPT ![code].connected_users = MapRemove(s.connected_users, socket_id),
                            ![code].disconnected_users =
                                MapPut(s.disconnected_users, username, info)])

\* can_reclaim_username with the window's last instant included
can_reclaim_username_inclusive(ss, code, username, t) ==
    IF code \notin DOMAIN ss THEN FALSE
    ELSE IF username \notin DOMAIN ss[code].disconnected_users THEN FALSE
    ELSE t - ss[code].disconnected_users[username].disconnected_at
            <= GraceSeconds * UnitsPerSecond

can_reclaim_username(ss, code, username, t) ==
    IF code \notin DOMAIN ss THEN FALSE
    ELSE IF username \notin DOMAIN ss[code].disconnected_users THEN FALSE
    ELSE t - ss[code].disconnected_users[username].disconnected_at
            < GraceSeconds * UnitsPerSecond

is_username_taken_by_other(ss, code, username, requesting_sid) ==
    IF code \notin DOMAIN ss THEN FALSE
    ELSE \E sid \in DOMAIN ss[code].connected_users :
            ss[code].connected_users[sid] = username /\ sid # requesting_sid

\* remove_user_by_username keeping, like a disconnect, a record of a
\* connected name it removes
remove_user_by_username_as_disconnect(ss, code, target_username) ==
    IF code \notin DOMAIN ss THEN Ret(Missing, ss)
    ELSE LET s == ss[code]
             holders == {sid \in DOMAIN s.connected_users :
                            s.connected_users[sid] = target_username}
         IN  IF holders # {}
             THEN LET target_sid == CHOOSE sid \in holders : TRUE
                  IN  Ret(target_sid,
                          [ss EXCEPT ![code].connected_users =
                                         MapRemove(s.connected_users, target_sid),
                                     ![code].disconnected_users =
                                         MapPut(s.disconnected_users, target_username,
                                                [disconnected_at |-> 0,
                                                 submissions_count |->
                                                     SubmissionsBy(s, target_username)])])
             ELSE IF target_username \in DOMAIN s.disconnected_users
             THEN Ret(Missing,
                      [ss EXCEPT ![code].disconnected_users =
                                     MapRemove(s.disconnected_users, target_username)])
             ELSE Ret(Missing, ss)

\* the host removes a player: the socket id that held the name (None when
\* the name was only in disconnected_users, or nowhere).  connected_users
\* holds a name at most once (add_connected_user), so "the first" is the one
remove_user_by_username(ss, code, target_username) ==
    IF code \notin DOMAIN ss THEN Ret(Missing, ss)
    ELSE LET s == ss[code]
             holders == {sid \in DOMAIN s.connected_users :
                            s.connected_users[sid] = target_username}
         IN  IF holders # {}
             THEN LET target_sid == CHOOSE sid \in holders : TRUE
                  IN  Ret(target_sid,
                          [ss EXCEPT ![code].connected_users =
                                         MapRemove(s.connected_users, target_sid)])
             ELSE IF target_username \in DOMAIN s.disconnected_users
             THEN Ret(Missing,
                      [ss EXCEPT ![code].disconnected_users =
                                     MapRemove(s.disconnected_users, target_username)])
             ELSE Ret(Missing, ss)

\* the sessions, in the dict's (insertion) order, that hold the socket id;
\* the code returns the first
find_session_by_socket(ss, socket_id) ==
    {c \in DOMAIN ss : socket_id \in DOMAIN ss[c].connected_users}

\* Python's order of str, on the names of the model, and of bool
NamesInOrder == <<"alice", "bob">>
NameIndex(name) == CHOOSE i \in 1..Len(NamesInOrder) : NamesInOrder[i] = name
BoolIndex(b) == IF b THEN 1 ELSE 0
\* Python's order of tuples of the same length
TupleLess(a, b) ==
    \E i \in 1..Len(a) : a[i] < b[i] /\ \A j \in 1..(i - 1) : a[j] = b[j]

\* list.sort(key=...) of entries with distinct keys (key: entry -> tuple):
\* the entry whose key is the least comes first
RECURSIVE SortedBy(_, _)
SortedBy(entries, key) ==
    IF entries = {} THEN <<>>
    ELSE LET first == CHOOSE e \in entries :
                          \A f \in entries \ {e} : TupleLess(key[e], key[f])
         IN  <<first>> \o SortedBy(entries \ {first}, key)

\* get_leaderboard sorting by score ascending
get_leaderboard_ascending(ss, code) ==
    IF code \notin DOMAIN ss THEN <<>>
    ELSE LET s == ss[code]
             all_usernames == {s.connected_users[sid] : sid \in DOMAIN s.connected_users}
                                  \cup DOMAIN s.disconnected_users
                                  \cup {s.athletes[i].submitted_by : i \in 1..Len(s.athletes)}
             leaderboard == {[username |-> u, score |-> SubmissionsBy(s, u)] : u \in all_usernames}
             key == [x \in leaderboard |-> <<x.score, NameIndex(x.username)>>]
             sorted == SortedBy(leaderboard, key)
         IN  [i \in 1..Len(sorted) |->
                 [username |-> sorted[i].username, score |-> sorted[i].score, rank |-> i]]

get_leaderboard(ss, code) ==
    IF code \notin DOMAIN ss THEN <<>>
    ELSE LET s == ss[code]
             all_usernames == {s.connected_users[sid] : sid \in DOMAIN s.connected_users}
                                  \cup DOMAIN s.disconnected_users
                                  \cup {s.athletes[i].submitted_by : i \in 1..Len(s.athletes)}
             leaderboard == {[username |-> u, score |-> SubmissionsBy(s, u)] : u \in all_usernames}
             \* key=lambda x: (-x["score"], x["username"])
             key == [x \in leaderboard |-> <<-x.score, NameIndex(x.username)>>]
             sorted == SortedBy(leaderboard, key)
         IN  [i \in 1..Len(sorted) |->
                 [username |-> sorted[i].username, score |-> sorted[i].score, rank |-> i]]

get_users_with_status(ss, code) ==
    IF code \notin DOMAIN ss THEN <<>>
    ELSE LET s == ss[code]
             connected_usernames == {s.connected_users[sid] : sid \in DOMAIN s.connected_users}
             User(u, is_connected) ==
                 [username |-> u, is_connected |-> is_connected,
                  is_host |-> u = s.host_username]
             users == {User(u, TRUE) : u \in connected_usernames}
                          \cup {User(u, FALSE) :
                                   u \in (DOMAIN s.disconnected_users) \ connected_usernames}
             \* key=lambda x: (not x["is_host"], not x["is_connected"], x["username"])
             key == [x \in users |-> <<BoolIndex(~x.is_host), BoolIndex(~x.is_connected),
                                        NameIndex(x.username)>>]
         IN  SortedBy(users, key)

(***************************************************************************)
(* events.py                                                               *)
(***************************************************************************)
\* verify_sender accepting a name that any socket of the session holds
verify_sender_any_socket(ss, code, sid, username) ==
    IF code \notin DOMAIN ss THEN FALSE
    ELSE \E other \in DOMAIN ss[code].connected_users :
            ss[code].connected_users[other] = username

verify_sender(ss, code, sid, username) ==
    IF code \notin DOMAIN ss THEN FALSE
    ELSE ConnectedName(ss[code], sid) = username

NoTimer == [code |-> Missing, pc |-> "none", wake |-> 0]
FreeTimers == {i \in DOMAIN timers : timers[i].pc = "none"}
NewTimerId == CHOOSE i \in FreeTimers : \A j \in FreeTimers : i <= j
\* asyncio.create_task(run_timer(sio, code)): a new task, not yet run
CreateTimer(tm, code) == [tm EXCEPT ![NewTimerId] = [code |-> code, pc |-> "new", wake |-> 0]]

\* task.cancel() on a task that is suspended or has not run yet: the
\* CancelledError is raised at its await and run_timer's handler only logs
CancelTimer(tm, id) == [tm EXCEPT ![id] = NoTimer]

(***************************************************************************)
(* What one turn of a coroutine does: the state it leaves and what it      *)
(* emitted, in order.  A handler is an operator from the state and the     *)
(* event's data to this record; its action applies it.                     *)
(***************************************************************************)
Outcome(ss, tt, tm, st, o) ==
    [sessions |-> ss, timer_tasks |-> tt, timers |-> tm, starting |-> st, out |-> o]
\* the turn only replies
Reply(o) == Outcome(sessions, timer_tasks, timers, starting, o)
\* how many of the emits `out` are `event` sent to `room`
Emitted(out, event, room) ==
    Cardinality({i \in 1..Len(out) : out[i].event = event /\ out[i].room = room})
Apply(o) ==
    /\ sessions' = o.sessions
    /\ timer_tasks' = o.timer_tasks
    /\ timers' = o.timers
    /\ starting' = o.starting
    /\ game_ended' = [c \in Codes |-> game_ended[c] + Emitted(o.out, "game_ended", c)]

NoCall == [call |-> "none"]

Init ==
    /\ sessions = EmptyMap
    /\ now = 0
    /\ ticks = 0
    /\ timer_tasks = EmptyMap
    /\ timers = [i \in 1..MaxTimers |-> NoTimer]
    /\ starting = {}
    /\ submits = [i \in 1..MaxSubmits |-> [pc |-> "idle"]]
    /\ ret = NoCall
    /\ game_ended = [c \in Codes |-> 0]

\* time passes; the clock's origin is the creation of the first session
Tick ==
    /\ ticks < MaxTicks
    /\ sessions # EmptyMap
    /\ \E d \in ClockSteps : now' = now + d
    /\ ticks' = ticks + 1
    /\ UNCHANGED <<game_ended, ret, sessions, timer_tasks, timers, starting, submits>>

\* POST /api/session/create: main.create_session, session_manager.create_session
CreateSession(code, host) ==
    /\ code \notin DOMAIN sessions
    /\ sessions' = create_session(sessions, code, host, now)
    /\ UNCHANGED <<game_ended, ret, now, ticks, timer_tasks, timers, starting, submits>>

\* socket event join_session
handle_join_session(sid, code, username) ==
    IF ~Truthy(code) \/ ~Truthy(username) THEN Reply(Error(sid, "Missing code or username"))
    ELSE IF ~get_session(sessions, code) THEN Reply(Error(sid, "Session not found"))
    ELSE IF sessions[code].status = "completed" THEN Reply(Error(sid, "This session has ended"))
    ELSE LET is_reconnecting == can_reclaim_username(sessions, code, username, now)
         IN  IF ~is_reconnecting /\ is_username_taken_by_other(sessions, code, username, sid)
             THEN Reply(Error(sid, "Username already in use"))
             ELSE LET r == add_connected_user(sessions, code, sid, username)
                  IN  Outcome(r.sessions, timer_tasks, timers, starting,
                              <<Emit("session_joined", sid,
                                     IF is_reconnecting THEN "reconnected" ELSE "joined",
                                     Some(SubmissionsBy(sessions[code], username))),
                                Emit("user_joined", code, username, None)>>)

HandleJoinSession(sid, code, username) ==
    /\ Apply(handle_join_session(sid, code, username))
    /\ UNCHANGED <<ret, now, ticks, submits>>

\* socket event disconnect, for the session find_session_by_socket returned
handle_disconnect(sid, code) ==
    LET r == remove_connected_user(sessions, code, sid, now)
    IN  IF r.ret = Missing THEN Reply(<<>>)
        ELSE Outcome(r.sessions, timer_tasks, timers, starting,
                     <<Emit("user_left", code, r.ret, None)>>)

HandleDisconnect(sid) ==
    /\ \E code \in find_session_by_socket(sessions, sid) : Apply(handle_disconnect(sid, code))
    /\ UNCHANGED <<ret, now, ticks, submits>>

\* socket event start_game, up to its first suspension (the game_started emit)
handle_start_game(sid, code, username) ==
    IF ~Truthy(code) THEN Reply(Error(sid, "Missing session code"))
    ELSE IF ~verify_sender(sessions, code, sid, username)
    THEN Reply(Error(sid, "Authentication failed"))
    ELSE IF ~get_session(sessions, code) THEN Reply(Error(sid, "Session not found"))
    ELSE IF ~is_host(sessions, code, username)
    THEN Reply(Error(sid, "Only the host can start the game"))
    ELSE IF sessions[code].status # "waiting" THEN Reply(Error(sid, "Game already started"))
    ELSE LET r == start_session(sessions, code, now)
         IN  IF ~r.ret THEN Reply(Error(sid, "Failed to start game"))
             ELSE Outcome(r.sessions, timer_tasks, timers, starting \cup {code},
                          <<Emit("game_started", code, "", r.sessions[code].ends_at)>>)

HandleStartGame(sid, code, username) ==
    /\ Apply(handle_start_game(sid, code, username))
    /\ UNCHANGED <<ret, now, ticks, submits>>

\* handle_start_game resumed after the emit: timer_tasks[code] = create_task(...)
StartGameTimer(code) ==
    /\ code \in starting
    /\ FreeTimers # {}
    /\ Apply(Outcome(sessions, MapPut(timer_tasks, code, NewTimerId),
                     CreateTimer(timers, code), starting \ {code}, <<>>))
    /\ UNCHANGED <<ret, now, ticks, submits>>

\* socket event pause_game
handle_pause_game(sid, code, username) ==
    IF ~Truthy(code) \/ ~Truthy(username) THEN Reply(Error(sid, "Missing code or username"))
    ELSE IF ~verify_sender(sessions, code, sid, username)
    THEN Reply(Error(sid, "Authentication failed"))
    ELSE IF ~is_host(sessions, code, username)
    THEN Reply(Error(sid, "Only the host can pause the game"))
    ELSE LET r == pause_session(sessions, code, now)
         IN  IF IsNone(r.ret)
             THEN Reply(Error(sid, "Cannot pause game (not active or already paused)"))
             ELSE Outcome(r.sessions,
                          MapRemove(timer_tasks, code),
                          IF code \in DOMAIN timer_tasks
                          THEN CancelTimer(timers, timer_tasks[code]) ELSE timers,
                          starting,
                          <<Emit("game_paused", code, "", r.ret)>>)

HandlePauseGame(sid, code, username) ==
    /\ Apply(handle_pause_game(sid, code, username))
    /\ UNCHANGED <<ret, now, ticks, submits>>

\* socket event resume_game
handle_resume_game(sid, code, username) ==
    IF ~Truthy(code) \/ ~Truthy(username) THEN Reply(Error(sid, "Missing code or username"))
    ELSE IF ~verify_sender(sessions, code, sid, username)
    THEN Reply(Error(sid, "Authentication failed"))
    ELSE IF ~is_host(sessions, code, username)
    THEN Reply(Error(sid, "Only the host can resume the game"))
    ELSE LET r == resume_session(sessions, code, now)
         IN  IF IsNone(r.ret)
             THEN Reply(Error(sid, "Cannot resume game (not active or not paused)"))
             ELSE Outcome(r.sessions, MapPut(timer_tasks, code, NewTimerId),
                          CreateTimer(timers, code), starting,
                          <<Emit("game_resumed", code, "", r.ret)>>)

\* the model holds MaxTimers tasks: a resume that would create one more waits
HandleResumeGame(sid, code, username) ==
    /\ FreeTimers # {}
    /\ Apply(handle_resume_game(sid, code, username))
    /\ UNCHANGED <<ret, now, ticks, submits>>

(***************************************************************************)
(* end_game(sio, code), run by timer task `self` (0: by a socket handler). *)
(* All of it runs before its only await, the game_ended emit.  When the    *)
(* task registered in timer_tasks is the caller itself, cancel() only      *)
(* marks the running task: the emit of the next statement is still called, *)
(* and the CancelledError is raised once the task suspends inside it.      *)
(* end_game_unguarded is end_game without its `status == "completed"`      *)
(* check.                                                                  *)
(***************************************************************************)
end_game_unguarded(code, self) ==
    LET finished == IF self = 0 THEN timers ELSE [timers EXCEPT ![self] = NoTimer]
    IN  IF ~get_session(sessions, code)
        THEN Outcome(sessions, timer_tasks, finished, starting, <<>>)
        ELSE LET r == end_session(sessions, code)
                 registered == IF code \in DOMAIN timer_tasks THEN timer_tasks[code] ELSE 0
                 cancelled == IF registered = 0 THEN finished
                              ELSE CancelTimer(finished, registered)
                 ended == Emit("game_ended", code, "", Some(Len(sessions[code].athletes)))
             IN  Outcome(r.sessions, MapRemove(timer_tasks, code), cancelled, starting,
                         <<ended>>)

end_game(code, self) ==
    LET finished == IF self = 0 THEN timers ELSE [timers EXCEPT ![self] = NoTimer]
    IN  IF ~get_session(sessions, code)
        THEN Outcome(sessions, timer_tasks, finished, starting, <<>>)
        ELSE IF sessions[code].status = "completed"
        THEN Outcome(sessions, timer_tasks, finished, starting, <<>>)
        ELSE LET r == end_session(sessions, code)
                 registered == IF code \in DOMAIN timer_tasks THEN timer_tasks[code] ELSE 0
                 cancelled == IF registered = 0 THEN finished
                              ELSE CancelTimer(finished, registered)
                 ended == Emit("game_ended", code, "", Some(Len(sessions[code].athletes)))
             IN  Outcome(r.sessions, MapRemove(timer_tasks, code), cancelled, starting,
                         <<ended>>)

\* handle_end_game_early without its `session.status != "active"` check
handle_end_game_early_any_status(sid, code, username) ==
    IF ~Truthy(code) \/ ~Truthy(username) THEN Reply(Error(sid, "Missing code or username"))
    ELSE IF ~verify_sender(sessions, code, sid, username)
    THEN Reply(Error(sid, "Authentication failed"))
    ELSE IF ~is_host(sessions, code, username)
    THEN Reply(Error(sid, "Only the host can end the game"))
    ELSE end_game(code, 0)

\* socket event end_game_early
handle_end_game_early(sid, code, username) ==
    IF ~Truthy(code) \/ ~Truthy(username) THEN Reply(Error(sid, "Missing code or username"))
    ELSE IF ~verify_sender(sessions, code, sid, username)
    THEN Reply(Error(sid, "Authentication failed"))
    ELSE IF ~is_host(sessions, code, username)
    THEN Reply(Error(sid, "Only the host can end the game"))
    ELSE IF ~get_session(sessions, code) \/ sessions[code].status # "active"
    THEN Reply(Error(sid, "Game is not active"))
    ELSE end_game(code, 0)

HandleEndGameEarly(sid, code, username) ==
    /\ Apply(handle_end_game_early(sid, code, username))
    /\ UNCHANGED <<ret, now, ticks, submits>>

\* socket event remove_player
handle_remove_player(sid, code, username, target_username) ==
    IF ~Truthy(code) \/ ~Truthy(username) \/ ~Truthy(target_username)
    THEN Reply(Error(sid, "Missing required fields"))
    ELSE IF ~verify_sender(sessions, code, sid, username)
    THEN Reply(Error(sid, "Authentication failed"))
    ELSE IF ~is_host(sessions, code, username)
    THEN Reply(Error(sid, "Only the host can remove players"))
    ELSE IF target_username = username THEN Reply(Error(sid, "Cannot remove yourself"))
    ELSE LET r == remove_user_by_username(sessions, code, target_username)
             removed == IF Truthy(r.ret)
                        THEN <<Emit("player_removed", r.ret, target_username, None)>>
                        ELSE <<>>
         IN  Outcome(r.sessions, timer_tasks, timers, starting,
                     removed \o <<Emit("user_removed", code, target_username, None)>>)

HandleRemovePlayer(sid, code, username, target_username) ==
    /\ Apply(handle_remove_player(sid, code, username, target_username))
    /\ UNCHANGED <<ret, now, ticks, submits>>

\* run_timer returning, once the time is up, without its call of end_game
run_timer_without_end(id) ==
    LET code == timers[id].code
    IN  IF ~get_session(sessions, code) \/ IsNone(sessions[code].ends_at)
        THEN Outcome(sessions, timer_tasks, [timers EXCEPT ![id] = NoTimer], starting, <<>>)
        ELSE IF now < Val(sessions[code].ends_at)
        THEN Outcome(sessions, timer_tasks,
                     [timers EXCEPT ![id].pc = "sleeping", ![id].wake = now + UnitsPerSecond],
                     starting,
                     <<Emit("timer_tick", code, "",
                            Some(TruncDiv(Val(sessions[code].ends_at) - now, UnitsPerSecond)))>>)
        ELSE Outcome(sessions, timer_tasks, [timers EXCEPT ![id] = NoTimer], starting, <<>>)

\* one turn of run_timer: from its start or from its sleep to its next await
run_timer(id) ==
    LET code == timers[id].code
    IN  IF ~get_session(sessions, code) \/ IsNone(sessions[code].ends_at)
        THEN Outcome(sessions, timer_tasks, [timers EXCEPT ![id] = NoTimer], starting, <<>>)
        ELSE IF now < Val(sessions[code].ends_at)
        THEN Outcome(sessions, timer_tasks,
                     [timers EXCEPT ![id].pc = "sleeping", ![id].wake = now + UnitsPerSecond],
                     starting,
                     <<Emit("timer_tick", code, "",
                            Some(TruncDiv(Val(sessions[code].ends_at) - now, UnitsPerSecond)))>>)
        ELSE end_game(code, id)

RunTimer(id) ==
    /\ timers[id].pc \in {"new", "sleeping"}
    /\ timers[id].pc = "sleeping" => now >= timers[id].wake
    /\ Apply(run_timer(id))
    /\ UNCHANGED <<ret, now, ticks, submits>>

(***************************************************************************)
(* validation.py and sports_config.py, on the names and sports of the      *)
(* model.                                                                  *)
(***************************************************************************)
\* str.strip() and str.lower() on the model's names
Strip(name) == IF name = " Messi " THEN "Messi" ELSE name
Lower(name) == CASE name = "Messi" -> "messi"
                 [] name = " Messi " -> " messi "
                 [] name = "Leo Messi" -> "leo messi"
                 [] OTHER -> name

\* (is_valid, sanitized_name): the other checks reject none of the model's names
sanitize_athlete_name(name) ==
    IF ~Truthy(name) THEN [ok |-> FALSE, name |-> ""]
    ELSE IF Len(Strip(name)) < 2 THEN [ok |-> FALSE, name |-> Strip(name)]
    ELSE [ok |-> TRUE, name |-> Strip(name)]

normalize_name(name) == IF Lower(name) = " messi " THEN "messi" ELSE Lower(name)

\* the sports cache holds one sport
is_valid_sport_qid(qid) == qid \in {"Q2736"}

\* the tuple validate_athlete_full returns, without validated_sports and
\* api_succeeded, which the handler does not read
Resolution(is_valid, error, entity_id, multiple_matches, canonical_name, all_matching_ids) ==
    [ is_valid |-> is_valid, error |-> error, entity_id |-> entity_id,
      multiple_matches |-> multiple_matches, canonical_name |-> canonical_name,
      all_matching_ids |-> all_matching_ids ]

CanonicalName(e) == IF e = "Q615" THEN "Lionel Messi" ELSE "Cristiano Ronaldo"

Range(seq) == {seq[i] : i \in 1..Len(seq)}
\* lists of entity ids without repetition
EntityLists ==
    {<<>>} \cup {<<e>> : e \in Entities}
           \cup {l \in {<<e, f>> : e \in Entities, f \in Entities} : l[1] # l[2]}

(***************************************************************************)
(* What Wikidata answers to one validation: the search results (those of   *)
(* the wider search when the code repeats it), the ones the SPARQL query   *)
(* verifies as athletes of the sport, in the order of its bindings, the    *)
(* ones whose description contains the hint, whether the first result is   *)
(* an athlete of any sport, whether the entity has an English label and    *)
(* whether the submitted name is similar to it; or a request fails.        *)
(***************************************************************************)
Wikidata ==
    { w \in [ results : EntityLists, verified : EntityLists, hinted : SUBSET Entities,
              is_athlete : BOOLEAN, labelled : BOOLEAN, similar : BOOLEAN,
              fails : BOOLEAN ] :
        /\ Range(w.verified) \subseteq Range(w.results)
        /\ w.fails => w.results = <<>> /\ w.hinted = {} /\ w.is_athlete
                           /\ w.labelled /\ w.similar }

\* (entity_id, multiple_matches_found, all_matching_entity_ids)
search_wikidata_person(w, hint) ==
    LET Found(person_id, multiple_matches, all_matches) ==
            [ person_id |-> person_id, multiple_matches |-> multiple_matches,
              all_matches |-> all_matches ]
        hint_matches == SelectSeq(w.results,
                                  LAMBDA rid : rid \in Range(w.verified) /\ rid \in w.hinted)
    IN  IF w.results = <<>> THEN Found(Missing, FALSE, <<>>)
        ELSE IF w.verified = <<>> THEN Found(w.results[1], FALSE, <<>>)
        ELSE IF Len(w.verified) > 1
        THEN IF Truthy(hint) /\ Len(hint_matches) = 1
             THEN Found(hint_matches[1], FALSE, w.verified)
             ELSE IF Truthy(hint) /\ Len(hint_matches) > 1
             THEN Found(hint_matches[1], TRUE, hint_matches)
             ELSE Found(w.verified[1], TRUE, w.verified)
        ELSE Found(w.verified[1], FALSE, w.verified)

validate_athlete_full(w, hint) ==
    LET found == search_wikidata_person(w, hint)
        canonical_name == IF w.labelled THEN CanonicalName(found.person_id) ELSE Missing
        Invalid(error) == Resolution(FALSE, error, Missing, FALSE, Missing, <<>>)
    IN  IF w.fails THEN Invalid("validation_failed")
        ELSE IF ~Truthy(found.person_id) THEN Invalid("invalid_athlete")
        ELSE IF found.all_matches = <<>>
        THEN IF ~w.is_athlete THEN Invalid("invalid_athlete") ELSE Invalid("wrong_sport")
        ELSE IF found.multiple_matches /\ ~Truthy(hint)
        THEN Resolution(FALSE, "disambiguation_required", found.person_id, TRUE, Missing,
                        found.all_matches)
        ELSE IF Truthy(canonical_name) /\ ~w.similar THEN Invalid("invalid_athlete")
        ELSE Resolution(TRUE, Missing, found.person_id, FALSE, canonical_name, <<>>)

\* every answer validate_athlete_full may give to a submission
ResolutionsWithoutHint == {validate_athlete_full(w, Missing) : w \in Wikidata}
ResolutionsWithHint == {validate_athlete_full(w, "psg") : w \in Wikidata}
Resolutions(hint) == IF Truthy(hint) THEN ResolutionsWithHint ELSE ResolutionsWithoutHint

(***************************************************************************)
(* handle_submit_athlete                                                   *)
(***************************************************************************)
Idle == [pc |-> "idle"]
SubmissionError(sid, tag) == <<Emit("submission_error", sid, tag, None)>>
\* the disambiguation_required reply: requires_hint, and whether the message
\* says that some of the candidates have already been submitted
RequiresHint(sid, some_taken) ==
    <<Emit("submission_error", sid, "disambiguation_required",
           Some([requires_hint |-> TRUE, some_taken |-> some_taken]))>>

\* up to the await of validate_athlete_full: the sessions dict afterwards,
\* the coroutine afterwards (returned, or suspended with its locals), the emits
handle_submit_athlete(sid, code, athlete_name, sport, username, hint) ==
    LET Returned(ss, tag) == [sessions |-> ss, task |-> Idle, out |-> SubmissionError(sid, tag)]
        clean == sanitize_athlete_name(athlete_name)
    IN  IF ~(Truthy(code) /\ Truthy(athlete_name) /\ Truthy(sport) /\ Truthy(username))
        THEN Returned(sessions, "missing_fields")
        ELSE IF ~verify_sender(sessions, code, sid, username)
        THEN Returned(sessions, "auth_failed")
        ELSE IF ~is_valid_sport_qid(sport)
        THEN Returned(sessions, "invalid_sport")
        ELSE IF ~clean.ok
        THEN Returned(add_rejected_submission(sessions, code, athlete_name, sport, username,
                                              "invalid_input", now).sessions,
                      "invalid_input")
        ELSE IF ~get_session(sessions, code)
        THEN Returned(sessions, "session_not_found")
        ELSE IF sessions[code].status # "active"
        THEN Returned(sessions, "game_not_active")
        ELSE IF sessions[code].is_paused
        THEN Returned(sessions, "game_paused")
        ELSE [ sessions |-> sessions,
               task |-> [ pc |-> "validating", code |-> code, sid |-> sid,
                          athlete_name |-> clean.name, sport |-> sport,
                          username |-> username, hint |-> hint,
                          normalized |-> normalize_name(clean.name) ],
               out |-> <<>> ]

\* a session_manager in which get_session_lock exists and returns a lock
get_session_lock_defined(code) == [raised |-> ""]

\* `lock = sm.get_session_lock(code)`: session_manager has no attribute of
\* that name, so evaluating the line raises AttributeError
get_session_lock(code) == [raised |-> "AttributeError"]

\* the coroutine once it has returned: what it resolved and what it replied
Done(task, res, result, o) ==
    [ pc |-> "done", code |-> task.code, entity_id |-> res.entity_id,
      is_valid |-> res.is_valid, error |-> res.error, result |-> result, out |-> o ]

\* locked_section without its `if not is_valid` branch
locked_section_accepting_invalid(task, res) ==
    LET code == task.code
        Rejected(reason) ==
            [ sessions |-> add_rejected_submission(sessions, code, task.athlete_name, task.sport,
                                                   task.username, reason, now).sessions,
              task |-> Done(task, res, reason, SubmissionError(task.sid, reason)),
              awaited_in_lock |-> SubmissionError(task.sid, reason) ]
        display_name == IF Truthy(res.canonical_name) THEN res.canonical_name
                        ELSE task.athlete_name
        athlete == Athlete(display_name, task.normalized, task.sport, task.username, now,
                           res.entity_id, task.hint, res.canonical_name)
    IN  IF Truthy(res.entity_id) /\ is_duplicate(sessions, code, task.normalized, res.entity_id)
        THEN Rejected("duplicate")
        ELSE IF ~Truthy(res.entity_id) /\ is_duplicate(sessions, code, task.normalized, Missing)
        THEN Rejected("duplicate")
        ELSE [ sessions |-> add_athlete(sessions, code, athlete).sessions,
               task |-> Done(task, res, "accepted",
                             <<Emit("athlete_added", code, display_name, None),
                               Emit("leaderboard_update", code, "", None)>>),
               awaited_in_lock |-> <<>> ]

\* the body of `async with lock:` (events.py 323-395) and the broadcasts
\* after it; awaited_in_lock are the emits awaited before the block is left
locked_section(task, res) ==
    LET code == task.code
        Rejected(reason) ==
            [ sessions |-> add_rejected_submission(sessions, code, task.athlete_name, task.sport,
                                                   task.username, reason, now).sessions,
              task |-> Done(task, res, reason, SubmissionError(task.sid, reason)),
              awaited_in_lock |-> SubmissionError(task.sid, reason) ]
        display_name == IF Truthy(res.canonical_name) THEN res.canonical_name
                        ELSE task.athlete_name
        athlete == Athlete(display_name, task.normalized, task.sport, task.username, now,
                           res.entity_id, task.hint, res.canonical_name)
    IN  IF Truthy(res.entity_id) /\ is_duplicate(sessions, code, task.normalized, res.entity_id)
        THEN Rejected("duplicate")
        ELSE IF ~Truthy(res.entity_id) /\ is_duplicate(sessions, code, task.normalized, Missing)
        THEN Rejected("duplicate")
        ELSE IF ~res.is_valid
        THEN Rejected(IF Truthy(res.error) THEN res.error ELSE "unknown")
        ELSE [ sessions |-> add_athlete(sessions, code, athlete).sessions,
               task |-> Done(task, res, "accepted",
                             <<Emit("athlete_added", code, display_name, None),
                               Emit("leaderboard_update", code, "", None)>>),
               awaited_in_lock |-> <<>> ]

\* submit_athlete_resolved with the entity duplicate check ahead of the
\* ambiguity check
submit_athlete_resolved_duplicate_first(task, res) ==
    LET code == task.code
        Rejected(ss, reason) ==
            [ sessions |-> ss,
              task |-> Done(task, res, reason, SubmissionError(task.sid, reason)) ]
        Recorded(reason) ==
            Rejected(add_rejected_submission(sessions, code, task.athlete_name, task.sport,
                                             task.username, reason, now).sessions,
                     reason)
        non_duplicate_ids == get_non_duplicate_entity_ids(sessions, code, res.all_matching_ids)
        Ambiguous(some_taken) ==
            [ sessions |-> sessions,
              task |-> Done(task, res, "disambiguation_required",
                            RequiresHint(task.sid, some_taken)) ]
    IN  IF Truthy(res.entity_id) /\ is_duplicate(sessions, code, task.normalized, res.entity_id)
        THEN Recorded("duplicate")
        ELSE IF res.error = "disambiguation_required" /\ res.multiple_matches
        THEN IF Len(non_duplicate_ids) = 0 THEN Recorded("duplicate")
             ELSE IF Len(non_duplicate_ids) < Len(res.all_matching_ids) THEN Ambiguous(TRUE)
             ELSE Ambiguous(FALSE)
        ELSE IF get_session_lock(code).raised # ""
        THEN Recorded("validation_failed")
        ELSE locked_section(task, res)

\* from the return of validate_athlete_full (with `res`) to the handler's return
submit_athlete_resolved(task, res) ==
    LET code == task.code
        Rejected(ss, reason) ==
            [ sessions |-> ss,
              task |-> Done(task, res, reason, SubmissionError(task.sid, reason)) ]
        Recorded(reason) ==
            Rejected(add_rejected_submission(sessions, code, task.athlete_name, task.sport,
                                             task.username, reason, now).sessions,
                     reason)
        non_duplicate_ids == get_non_duplicate_entity_ids(sessions, code, res.all_matching_ids)
        Ambiguous(some_taken) ==
            [ sessions |-> sessions,
              task |-> Done(task, res, "disambiguation_required",
                            RequiresHint(task.sid, some_taken)) ]
    IN  IF res.error = "disambiguation_required" /\ res.multiple_matches
        THEN IF Len(non_duplicate_ids) = 0 THEN Recorded("duplicate")
             ELSE IF Len(non_duplicate_ids) < Len(res.all_matching_ids) THEN Ambiguous(TRUE)
             ELSE Ambiguous(FALSE)
        ELSE IF get_session_lock(code).raised # ""
        THEN \* caught by `except Exception`
             Recorded("validation_failed")
        ELSE locked_section(task, res)

\* the submissions the session of `code` may still record
Recordable(code) ==
    IF code \notin DOMAIN sessions THEN TRUE
    ELSE Len(sessions[code].rejected_submissions)
         + Cardinality({t \in DOMAIN submits :
                           submits[t].pc = "validating" /\ submits[t].code = code})
         < MaxRejected

\* socket event submit_athlete arrives; coroutine t runs it
HandleSubmitAthlete(t, sid, code, athlete_name, sport, username, hint) ==
    /\ submits[t].pc = "idle"
    /\ \A u \in 1..(t - 1) : submits[u].pc # "idle"
    /\ Recordable(code)
    /\ LET o == handle_submit_athlete(sid, code, athlete_name, sport, username, hint)
       IN  /\ sessions' = o.sessions
           /\ submits' = [submits EXCEPT ![t] = o.task]
    /\ UNCHANGED <<game_ended, ret, now, ticks, timer_tasks, timers, starting>>

\* validate_athlete_full returns to coroutine t
SubmitAthleteResolved(t) ==
    /\ submits[t].pc = "validating"
    /\ \E res \in Resolutions(submits[t].hint) :
          LET o == submit_athlete_resolved(submits[t], res)
          IN  /\ sessions' = o.sessions
              /\ submits' = [submits EXCEPT ![t] = o.task]
    /\ UNCHANGED <<game_ended, ret, now, ticks, timer_tasks, timers, starting>>

\* the coroutine object of a returned handler is dropped
SubmitAthleteReturned(t) ==
    /\ submits[t].pc = "done"
    /\ submits' = [submits EXCEPT ![t] = Idle]
    /\ UNCHANGED <<game_ended, ret, sessions, now, ticks, timer_tasks, timers, starting>>

(***************************************************************************)
(* The specifications.  An event whose handler only replies (a missing     *)
(* field, an unknown session, a sender that is not authenticated, a sport  *)
(* that is not in the cache) leaves the state as it is: it is a stuttering *)
(* step, so the actions draw the events' data from the values that can     *)
(* change the state.  The properties quantify over all of the inputs.      *)
(***************************************************************************)
Lifecycle ==
    \/ \E code \in Codes, host \in Users : CreateSession(code, host)
    \/ \E sid \in Sids, code \in Codes, u \in Users : HandleJoinSession(sid, code, u)
    \/ \E sid \in Sids, code \in Codes, u \in Users : HandleStartGame(sid, code, u)
    \/ \E code \in Codes : StartGameTimer(code)
    \/ \E sid \in Sids, code \in Codes, u \in Users : HandlePauseGame(sid, code, u)
    \/ \E sid \in Sids, code \in Codes, u \in Users : HandleResumeGame(sid, code, u)
    \/ \E sid \in Sids, code \in Codes, u \in Users : HandleEndGameEarly(sid, code, u)
    \/ \E id \in 1..MaxTimers : RunTimer(id)

Submissions ==
    \/ \E t \in 1..MaxSubmits, sid \in Sids, code \in Codes, name \in RawNames,
          u \in Users, hint \in Hints :
          HandleSubmitAthlete(t, sid, code, name, "Q2736", u, hint)
    \/ \E t \in 1..MaxSubmits : SubmitAthleteResolved(t)
    \/ \E t \in 1..MaxSubmits : SubmitAthleteReturned(t)

\* the whole server
Next ==
    \/ Tick
    \/ Lifecycle
    \/ \E sid \in Sids : HandleDisconnect(sid)
    \/ \E sid \in Sids, code \in Codes, u \in Users, target \in Users :
          HandleRemovePlayer(sid, code, u, target)
    \/ Submissions

Spec == Init /\ [][Next]_vars

\* the game's life cycle and its timer tasks, while no submission arrives
\* and no socket drops
NextGame == Tick \/ Lifecycle

SpecGame == Init /\ [][NextGame]_vars

\* the life cycle with the players coming and going, at one instant of the
\* clock: sockets drop, the host removes players
NextHost ==
    \/ Lifecycle
    \/ \E sid \in Sids : HandleDisconnect(sid)
    \/ \E sid \in Sids, code \in Codes, u \in Users, target \in Users :
          HandleRemovePlayer(sid, code, u, target)

SpecHost == Init /\ [][NextHost]_vars

\* the same with the event loop's scheduling: time passes, a task that can
\* take its turn takes it, a handler suspended at an emit is resumed
SpecGameFair ==
    /\ SpecGame
    /\ WF_vars(Tick)
    /\ \A id \in 1..MaxTimers : WF_vars(RunTimer(id))
    /\ \A code \in Codes : WF_vars(StartGameTimer(code))

\* the submissions and the life cycle, at one instant of the clock
NextSubmit == Lifecycle \/ Submissions

SpecSubmit == Init /\ [][NextSubmit]_vars

\* the submission handler with one submission in flight, against a game whose host alice is on socket s1
NextSubmitOne ==
    \/ \E code \in Codes : CreateSession(code, "alice")
    \/ \E sid \in Sids, code \in Codes, u \in Users : HandleJoinSession(sid, code, u)
    \/ \E code \in Codes : HandleStartGame("s1", code, "alice")
    \/ \E code \in Codes : StartGameTimer(code)
    \/ \E code \in Codes : HandlePauseGame("s1", code, "alice")
    \/ \E code \in Codes : HandleResumeGame("s1", code, "alice")
    \/ \E code \in Codes : HandleEndGameEarly("s1", code, "alice")
    \/ \E id \in 1..MaxTimers : RunTimer(id)
    \/ \E sid \in Sids, code \in Codes, name \in RawNames, u \in Users, hint \in Hints :
          HandleSubmitAthlete(1, sid, code, name, "Q2736", u, hint)
    \/ SubmitAthleteResolved(1)
    \/ SubmitAthleteReturned(1)

SpecSubmitOne == Init /\ [][NextSubmitOne]_vars

(***************************************************************************)
(* session_manager driven directly, the way tests/test_session_manager.py  *)
(* drives it: create_session, start_session, add_connected_user,           *)
(* add_athlete, and is_duplicate, whose return value `ret` holds until the *)
(* caller has taken it.                                                    *)
(***************************************************************************)
LibStartSession(code) ==
    /\ ret = NoCall
    /\ code \in DOMAIN sessions
    /\ sessions' = start_session(sessions, code, now).sessions
    /\ UNCHANGED <<game_ended, ret, now, ticks, timer_tasks, timers, starting, submits>>

LibAddConnectedUser(code, sid, username) ==
    /\ ret = NoCall
    /\ code \in DOMAIN sessions
    /\ sessions' = add_connected_user(sessions, code, sid, username).sessions
    /\ UNCHANGED <<game_ended, ret, now, ticks, timer_tasks, timers, starting, submits>>

LibAddAthlete(code, normalized_name, entity_id, username) ==
    /\ ret = NoCall
    /\ code \in DOMAIN sessions
    /\ Len(sessions[code].athletes) < MaxAthletes
    /\ sessions' = add_athlete(sessions, code,
                               Athlete("Test Athlete", normalized_name, "Q2736", username,
                                       now, entity_id, Missing, Missing)).sessions
    /\ UNCHANGED <<game_ended, ret, now, ticks, timer_tasks, timers, starting, submits>>

LibIsDuplicate(code, normalized_name, entity_id) ==
    /\ ret = NoCall
    /\ ret' = [ call |-> "is_duplicate", code |-> code, normalized_name |-> normalized_name,
                entity_id |-> entity_id,
                value |-> is_duplicate(sessions, code, normalized_name, entity_id) ]
    /\ UNCHANGED <<game_ended, sessions, now, ticks, timer_tasks, timers, starting, submits>>

LibReturned ==
    /\ ret # NoCall
    /\ ret' = NoCall
    /\ UNCHANGED <<game_ended, sessions, now, ticks, timer_tasks, timers, starting, submits>>

LibSessions ==
    \/ \E code \in Codes, host \in Users : CreateSession(code, host)
    \/ \E code \in Codes : LibStartSession(code)
    \/ \E code \in Codes, sid \in Sids, u \in Users : LibAddConnectedUser(code, sid, u)
    \/ \E code \in Codes, n \in NormalizedNames, e \in Entities \cup {Missing}, u \in Users :
          LibAddAthlete(code, n, e, u)

NextLib ==
    \/ LibSessions
    \/ \E code \in Codes \cup {UnknownCode}, n \in NormalizedNames, e \in Entities \cup {Missing} :
          LibIsDuplicate(code, n, e)
    \/ LibReturned

SpecLib == Init /\ [][NextLib]_vars

\* submit_athlete events of one connected user arriving, one at a time, on
\* a session built by those direct calls
NextSeeded ==
    \/ \E code \in Codes : CreateSession(code, "alice")
    \/ \E code \in Codes : LibStartSession(code)
    \/ \E code \in Codes : LibAddConnectedUser(code, "s1", "alice")
    \/ \E code \in Codes, n \in NormalizedNames, e \in Entities \cup {Missing} :
          LibAddAthlete(code, n, e, "alice")
    \/ \E code \in Codes, name \in {"Messi", "Leo Messi"}, hint \in Hints :
          HandleSubmitAthlete(1, "s1", code, name, "Q2736", "alice", hint)
    \/ SubmitAthleteResolved(1)
    \/ SubmitAthleteReturned(1)

SpecSeeded == Init /\ [][NextSeeded]_vars

\* submit_athlete events to two sessions built by those direct calls, with
\* submissions of both in flight at once
OtherCode == "B"
TwoCodes == Codes \cup {OtherCode}

NextTwoSessions ==
    \/ \E code \in TwoCodes : CreateSession(code, "alice")
    \/ \E code \in TwoCodes : LibStartSession(code)
    \/ \E code \in TwoCodes, sid \in Sids : LibAddConnectedUser(code, sid, "alice")
    \/ \E t \in 1..MaxSubmits, sid \in Sids, code \in TwoCodes, hint \in Hints :
          HandleSubmitAthlete(t, sid, code, "Messi", "Q2736", "alice", hint)
    \/ \E t \in 1..MaxSubmits : SubmitAthleteResolved(t)
    \/ \E t \in 1..MaxSubmits : SubmitAthleteReturned(t)

SpecTwoSessions == Init /\ [][NextTwoSessions]_vars

\* a submission of the player on socket sid to a running session accepted:
\* add_athlete, called directly, with submitted_by the name the socket is
\* bound to, for an athlete that is_duplicate does not find in the session
\* (by its entity id, or by its name when it has none)
AcceptedSubmission(code, sid, normalized_name, entity_id) ==
    /\ code \in DOMAIN sessions
    /\ sessions[code].status = "active"
    /\ sid \in DOMAIN sessions[code].connected_users
    /\ ~is_duplicate(sessions, code, normalized_name, entity_id)
    /\ LibAddAthlete(code, normalized_name, entity_id, sessions[code].connected_users[sid])

\* the players coming and going while time passes: joins, dropped sockets,
\* removals by the host alice, and accepted submissions.  The clock
\* advances by a second, by half a second less than the reservation window,
\* or by the window
GraceSteps == {UnitsPerSecond, GraceSeconds * UnitsPerSecond - 1, GraceSeconds * UnitsPerSecond}

GraceTick ==
    /\ ticks < MaxTicks
    /\ sessions # EmptyMap
    /\ \E d \in GraceSteps : now' = now + d
    /\ ticks' = ticks + 1
    /\ UNCHANGED <<game_ended, ret, sessions, timer_tasks, timers, starting, submits>>

NextRoster ==
    \/ GraceTick
    \/ \E code \in Codes : CreateSession(code, "alice")
    \/ \E sid \in Sids, code \in Codes, u \in Users : HandleJoinSession(sid, code, u)
    \/ \E sid \in Sids : HandleDisconnect(sid)
    \/ \E sid \in Sids, code \in Codes, u \in Users, target \in Users :
          HandleRemovePlayer(sid, code, u, target)
    \/ \E code \in Codes : LibStartSession(code)
    \/ \E code \in Codes, sid \in Sids, e \in Entities :
          AcceptedSubmission(code, sid, "messi", e)

SpecRoster == Init /\ [][NextRoster]_vars

\* accepted submissions, with and without an entity id, of alice on socket
\* s1 and bob on socket s2, and submit_athlete events of alice
NextAccepted ==
    \/ \E code \in Codes : CreateSession(code, "alice")
    \/ \E code \in Codes : LibStartSession(code)
    \/ \E code \in Codes : LibAddConnectedUser(code, "s1", "alice")
    \/ \E code \in Codes : LibAddConnectedUser(code, "s2", "bob")
    \/ \E code \in Codes, sid \in Sids, n \in NormalizedNames, e \in Entities \cup {Missing} :
          AcceptedSubmission(code, sid, n, e)
    \/ \E code \in Codes, hint \in Hints :
          HandleSubmitAthlete(1, "s1", code, "Messi", "Q2736", "alice", hint)
    \/ SubmitAthleteResolved(1)
    \/ SubmitAthleteReturned(1)

SpecAccepted == Init /\ [][NextAccepted]_vars

\* sockets joining two sessions, and dropping
NextTwoRooms ==
    \/ \E code \in TwoCodes : CreateSession(code, "alice")
    \/ \E sid \in Sids, code \in TwoCodes, u \in Users : HandleJoinSession(sid, code, u)
    \/ \E sid \in Sids : HandleDisconnect(sid)

SpecTwoRooms == Init /\ [][NextTwoRooms]_vars

(***************************************************************************)
(* Properties                                                              *)
(***************************************************************************)
AthletesWith(code, e) ==
    {i \in 1..Len(sessions[code].athletes) : sessions[code].athletes[i].entity_id = e}
Running(code) ==
    code \in DOMAIN sessions /\ sessions[code].status = "active" /\ ~sessions[code].is_paused
\* coroutine t takes, in this step, the answer of the resolver
Resolves(t) == submits[t].pc = "validating" /\ submits'[t].pc = "done"

\* C1: of the submissions to one running session that resolved, as valid,
\* to the same entity, exactly one is committed (one Athlete with that
\* entity id) and every other one is rejected `duplicate`.
C1_ExactlyOneCommitted ==
    \A code \in DOMAIN sessions, e \in Entities :
        LET same == {t \in DOMAIN submits :
                        /\ submits[t].pc = "done"
                        /\ submits[t].code = code
                        /\ submits[t].is_valid
                        /\ submits[t].entity_id = e}
        IN  Cardinality(same) >= 2 /\ Running(code) =>
                /\ Cardinality({t \in same : submits[t].result = "accepted"}) = 1
                /\ \A t \in same : submits[t].result \in {"accepted", "duplicate"}
                /\ Cardinality(AthletesWith(code, e)) = 1

\* C2: a submission to a running session whose resolution is valid and
\* carries an entity id the session does not hold is accepted: one Athlete
\* is appended, its normalized name and entity id join the dedup sets, and
\* athlete_added then leaderboard_update go to the session's room.
C2_NewEntityAccepted ==
    [][\A t \in DOMAIN submits :
          LET code == submits[t].code
              old == sessions[code]
              new == sessions'[code]
          IN  /\ Resolves(t)
              /\ Running(code)
              /\ submits'[t].is_valid
              /\ submits'[t].entity_id \notin old.athlete_entity_ids
              => /\ submits'[t].result = "accepted"
                 /\ Len(new.athletes) = Len(old.athletes) + 1
                 /\ new.athletes[Len(new.athletes)].entity_id = submits'[t].entity_id
                 /\ new.athlete_names = old.athlete_names \cup {submits[t].normalized}
                 /\ new.athlete_entity_ids =
                        old.athlete_entity_ids \cup {submits'[t].entity_id}
                 /\ Len(submits'[t].out) = 2
                 /\ submits'[t].out[1].event = "athlete_added"
                 /\ submits'[t].out[1].room = code
                 /\ submits'[t].out[2].event = "leaderboard_update"
                 /\ submits'[t].out[2].room = code
      ]_vars

\* C3: once the session holds entity id E, a submission that resolves to E
\* is rejected `duplicate`, whatever name it was submitted under.
C3_SameEntityRejectedDuplicate ==
    [][\A t \in DOMAIN submits :
          /\ Resolves(t)
          /\ submits'[t].is_valid
          /\ submits'[t].entity_id \in sessions[submits[t].code].athlete_entity_ids
          => submits'[t].result = "duplicate"
      ]_vars

\* C4: a submission that resolves to an entity id the session does not
\* hold is accepted even when its normalized name is already in the
\* session's name set.
C4_OtherEntitySameNameAccepted ==
    [][\A t \in DOMAIN submits :
          /\ Resolves(t)
          /\ Running(submits[t].code)
          /\ submits'[t].is_valid
          /\ submits'[t].entity_id \notin sessions[submits[t].code].athlete_entity_ids
          /\ submits[t].normalized \in sessions[submits[t].code].athlete_names
          => submits'[t].result = "accepted"
      ]_vars

\* C5: called without an entity id, is_duplicate is true exactly when the
\* normalized name is in the session's name set; called with one, its
\* answer is whether that id is in the entity-id set, whatever the name set
\* holds.
C5_NameFallbackOnlyWithoutEntity ==
    ret.call = "is_duplicate" =>
        LET known == ret.code \in DOMAIN sessions
        IN  IF Truthy(ret.entity_id)
            THEN ret.value <=>
                    known /\ ret.entity_id \in sessions[ret.code].athlete_entity_ids
            ELSE ret.value <=>
                    known /\ ret.normalized_name \in sessions[ret.code].athlete_names

\* is_duplicate has answered from the name set, and has answered "no" for a
\* name the set holds because the entity id given is new
C5_Witness ==
    /\ ret.call = "is_duplicate"
    /\ ret.code \in DOMAIN sessions
    /\ ret.normalized_name \in sessions[ret.code].athlete_names
    /\ Truthy(ret.entity_id)
    /\ ~ret.value

\* C6: a session is created waiting, and its status only ever changes
\* from waiting to active and from active to completed.
C6_StatusOrder ==
    [][\A code \in DOMAIN sessions' :
          IF code \in DOMAIN sessions
          THEN \/ sessions'[code].status = sessions[code].status
               \/ <<sessions[code].status, sessions'[code].status>>
                      \in {<<"waiting", "active">>, <<"active", "completed">>}
          ELSE sessions'[code].status = "waiting"
      ]_vars

\* a session has been started and has ended
C6_Witness ==
    \E code \in DOMAIN sessions :
        sessions[code].status = "completed" /\ ~IsNone(sessions[code].started_at)

\* C7: the paused flag is set only while the status is active.
C7_PausedOnlyWhileActive ==
    \A code \in DOMAIN sessions :
        sessions[code].is_paused => sessions[code].status = "active"

\* C8: start succeeds only on a waiting session, which it makes active
\* with started_at = now and ends_at = started_at + 2 hours; on any other
\* session it returns failure and changes nothing, and the start_game
\* handler then changes no session and creates no timer task.
C8_StartOnlyFromWaiting ==
    \A code \in CodeInputs :
        LET r == start_session(sessions, code, now)
        IN  /\ IF code \in DOMAIN sessions /\ sessions[code].status = "waiting"
               THEN /\ r.ret
                    /\ r.sessions = [sessions EXCEPT
                           ![code].status = "active",
                           ![code].started_at = Some(now),
                           ![code].ends_at = Some(now + 7200 * UnitsPerSecond)]
               ELSE ~r.ret /\ r.sessions = sessions
            /\ \A sid \in Sids, u \in UserInputs :
                  LET o == handle_start_game(sid, code, u)
                  IN  code \notin DOMAIN sessions \/ sessions[code].status # "waiting"
                      => /\ o.sessions = sessions
                         /\ o.timer_tasks = timer_tasks
                         /\ o.timers = timers
                         /\ o.starting = starting
                         /\ o.out = Error(sid, o.out[1].msg)

\* the host has started the game and is connected, so that a second
\* start_game of theirs reaches the status check
C8_Witness ==
    \E code \in DOMAIN sessions, sid \in Sids :
        /\ sessions[code].status = "active"
        /\ sessions[code].ends_at = Some(Val(sessions[code].started_at) + 7200 * UnitsPerSecond)
        /\ verify_sender(sessions, code, sid, sessions[code].host_username)
        /\ handle_start_game(sid, code, sessions[code].host_username).out
              = Error(sid, "Game already started")

\* the whole seconds of max(d, 0), for a duration d in clock units
WholeSeconds(d, k) ==
    /\ k >= 0
    /\ d < 0 => k = 0
    /\ d >= 0 => k * UnitsPerSecond <= d /\ d < (k + 1) * UnitsPerSecond

\* C9: pause returns none and changes nothing unless the session exists,
\* is active and is not paused; otherwise it returns max(ends_at - now, 0)
\* in whole seconds, stores it as time_remaining_at_pause, sets is_paused
\* and paused_at, and changes nothing else.  A paused session holds the
\* value so computed.
C9_Pause ==
    /\ \A code \in CodeInputs :
          LET r == pause_session(sessions, code, now)
          IN  IF code \in DOMAIN sessions /\ sessions[code].status = "active"
                 /\ ~sessions[code].is_paused
              THEN /\ ~IsNone(r.ret)
                   /\ WholeSeconds(Val(sessions[code].ends_at) - now, Val(r.ret))
                   /\ r.sessions = [sessions EXCEPT
                          ![code].is_paused = TRUE,
                          ![code].paused_at = Some(now),
                          ![code].time_remaining_at_pause = r.ret]
              ELSE IsNone(r.ret) /\ r.sessions = sessions
    /\ \A code \in DOMAIN sessions :
          sessions[code].is_paused =>
              /\ ~IsNone(sessions[code].paused_at)
              /\ ~IsNone(sessions[code].time_remaining_at_pause)
              /\ WholeSeconds(Val(sessions[code].ends_at) - Val(sessions[code].paused_at),
                              Val(sessions[code].time_remaining_at_pause))

\* a session was paused at an instant that is no whole number of seconds
\* before its end
C9_Witness ==
    \E code \in DOMAIN sessions :
        /\ sessions[code].is_paused
        /\ sessions[code].status = "active"
        /\ (Val(sessions[code].ends_at) - Val(sessions[code].paused_at)) % UnitsPerSecond # 0
        /\ Val(sessions[code].time_remaining_at_pause) > 0

\* C10: resume returns none and changes nothing unless the session exists,
\* is active and is paused; otherwise it sets ends_at to now plus the
\* stored remaining seconds, clears is_paused, paused_at and
\* time_remaining_at_pause, changes nothing else, and returns the new
\* ends_at.
C10_Resume ==
    \A code \in CodeInputs :
        LET r == resume_session(sessions, code, now)
        IN  IF code \in DOMAIN sessions /\ sessions[code].status = "active"
               /\ sessions[code].is_paused
            THEN LET stored == sessions[code].time_remaining_at_pause
                     new_end == now + (IF IsNone(stored) THEN 0 ELSE Val(stored)) * UnitsPerSecond
                 IN  /\ r.ret = Some(new_end)
                     /\ r.sessions = [sessions EXCEPT
                            ![code].ends_at = Some(new_end),
                            ![code].is_paused = FALSE,
                            ![code].paused_at = None,
                            ![code].time_remaining_at_pause = None]
            ELSE IsNone(r.ret) /\ r.sessions = sessions

\* a session has been resumed later than it was paused: it runs again, with
\* an end other than the one its start gave it
C10_Witness ==
    \E code \in DOMAIN sessions :
        /\ sessions[code].status = "active"
        /\ ~sessions[code].is_paused
        /\ IsNone(sessions[code].paused_at)
        /\ IsNone(sessions[code].time_remaining_at_pause)
        /\ Val(sessions[code].ends_at) > Val(sessions[code].started_at) + GameDuration

C12_EndIdempotent ==
    \A code \in CodeInputs :
        LET once == end_session(sessions, code)
            twice == end_session(once.sessions, code)
        IN  /\ twice.sessions = once.sessions
            /\ twice.ret = once.ret
            /\ code \in DOMAIN sessions /\ sessions[code].status = "completed" =>
                  /\ once.ret
                  /\ once.sessions = sessions
                  /\ end_game(code, 0) = Reply(<<>>)

\* a session has been ended, and a second end reaches it
C12_Witness ==
    \E code \in DOMAIN sessions :
        /\ sessions[code].status = "completed"
        /\ game_ended[code] = 1
        /\ end_session(sessions, code) = Ret(TRUE, sessions)

\* the timer tasks of a session that have not finished and are not cancelled
LiveTimers(code) ==
    {id \in DOMAIN timers : timers[id].pc # "none" /\ timers[id].code = code}
\* the timer task may take its next turn now
Runnable(id) ==
    /\ timers[id].pc \in {"new", "sleeping"}
    /\ timers[id].pc = "sleeping" => now >= timers[id].wake

\* C13: `game_ended` has been broadcast exactly once to every completed
\* session and never to another one, whoever called end_game; and the
\* turn in which the registered timer task ends the game itself (and so
\* cancels itself) emits it.
C13_GameEndedOnce ==
    \A code \in Codes :
        /\ game_ended[code] =
              IF code \in DOMAIN sessions /\ sessions[code].status = "completed" THEN 1 ELSE 0
        /\ \A id \in LiveTimers(code) :
              /\ Runnable(id)
              /\ code \in DOMAIN timer_tasks /\ timer_tasks[code] = id
              /\ sessions[code].status = "active"
              /\ now >= Val(sessions[code].ends_at)
              => /\ Emitted(run_timer(id).out, "game_ended", code) = 1
                 /\ run_timer(id).sessions[code].status = "completed"

\* the game has ended, its one broadcast is out, and a timer task that
\* outlived the end is about to call end_game once more
C13_Witness ==
    \E code \in DOMAIN sessions :
        /\ sessions[code].status = "completed"
        /\ game_ended[code] = 1
        /\ \E id \in LiveTimers(code) :
              /\ Runnable(id)
              /\ now >= Val(sessions[code].ends_at)
              /\ run_timer(id).out = <<>>

\* C14: a pause stops every timer task the session had before it, so that
\* no task from before the pause ticks or calls end_game afterwards and
\* only the task the resume creates can end the session.
C14_PauseStopsEarlierTimers ==
    [][\A code \in DOMAIN sessions :
          ~sessions[code].is_paused /\ sessions'[code].is_paused =>
              \A id \in LiveTimers(code) : timers'[id].pc = "none"
      ]_vars

\* C15: while a session is paused it has no timer task: none registered in
\* timer_tasks, none that can emit timer_tick or end the game.
C15_NoTimerWhilePaused ==
    \A code \in DOMAIN sessions :
        sessions[code].status = "active" /\ sessions[code].is_paused =>
            /\ code \notin DOMAIN timer_tasks
            /\ LiveTimers(code) = {}

\* C16: a session has at most one live timer task, and a completed
\* session has none and no entry in timer_tasks.
C16_AtMostOneTimer ==
    \A code \in DOMAIN sessions :
        /\ Cardinality(LiveTimers(code)) <= 1
        /\ sessions[code].status = "completed" =>
              code \notin DOMAIN timer_tasks /\ LiveTimers(code) = {}

\* the countdown of a running session is over
Expired(code) ==
    /\ Running(code)
    /\ now >= Val(sessions[code].ends_at)
\* the clock of the model has stopped before a sleeping timer task of the
\* session wakes
AsleepAtHorizon(code) ==
    /\ ticks = MaxTicks
    /\ \E id \in LiveTimers(code) : timers[id].pc = "sleeping" /\ timers[id].wake > now

\* C17: a running session whose ends_at the clock has reached is
\* eventually completed, unless it is paused first (within the clock's
\* horizon in the model).
C17_ExpiryCompletes ==
    \A code \in Codes :
        Expired(code) ~>
            \/ code \in DOMAIN sessions /\ sessions[code].status = "completed"
            \/ code \in DOMAIN sessions /\ sessions[code].is_paused
            \/ AsleepAtHorizon(code)

\* the countdown of a running session is over while the clock can still
\* advance, and its timer task, about to take its turn, completes it
C17_Witness ==
    \E code \in DOMAIN sessions :
        /\ Expired(code)
        /\ ticks < MaxTicks
        /\ \E id \in LiveTimers(code) :
              /\ Runnable(id)
              /\ run_timer(id).sessions[code].status = "completed"

\* C18: once a session is completed its athletes and its two dedup sets
\* never change, whatever the submissions still in flight resolve to.
C18_NoCommitOnceCompleted ==
    [][\A code \in DOMAIN sessions :
          sessions[code].status = "completed" =>
              /\ sessions'[code].athletes = sessions[code].athletes
              /\ sessions'[code].athlete_names = sessions[code].athlete_names
              /\ sessions'[code].athlete_entity_ids = sessions[code].athlete_entity_ids
      ]_vars

\* a submission passed the phase check, the session was completed while
\* the resolver was working, and the resolver may now answer "valid"
C18_Witness ==
    \E t \in DOMAIN submits :
        /\ submits[t].pc = "validating"
        /\ sessions[submits[t].code].status = "completed"
        /\ \E res \in Resolutions(submits[t].hint) :
              /\ res.is_valid
              /\ submit_athlete_resolved(submits[t], res).task.result # "accepted"

\* C19: a submission whose resolution returns, valid and new, while the
\* session is paused is rejected `game_paused` and not appended.
C19_PausedCommitRejected ==
    [][\A t \in DOMAIN submits :
          LET code == submits[t].code
          IN  /\ Resolves(t)
              /\ sessions[code].status = "active"
              /\ sessions[code].is_paused
              /\ submits'[t].is_valid
              /\ submits'[t].entity_id \notin sessions[code].athlete_entity_ids
              => /\ submits'[t].result = "game_paused"
                 /\ sessions'[code].athletes = sessions[code].athletes
      ]_vars

\* C20: a submission with all its fields whose username is not the name
\* bound to the calling socket id in the session's connected_users is
\* answered submission_error auth_failed, records nothing and starts no
\* validation.
C20_SpoofedSubmissionRejected ==
    \A sid \in Sids, code \in Codes \cup {UnknownCode}, name \in RawNames,
       sport \in Sports, username \in Users, hint \in Hints :
        LET bound == /\ code \in DOMAIN sessions
                     /\ sid \in DOMAIN sessions[code].connected_users
                     /\ sessions[code].connected_users[sid] = username
            o == handle_submit_athlete(sid, code, name, sport, username, hint)
        IN  ~bound =>
                /\ o.out = <<Emit("submission_error", sid, "auth_failed", None)>>
                /\ o.sessions = sessions
                /\ o.task = Idle

\* a socket submits to a running session under the name another socket
\* holds there
C20_Witness ==
    \E code \in DOMAIN sessions, sid \in Sids, other \in Sids, username \in Users :
        /\ Running(code)
        /\ other # sid
        /\ other \in DOMAIN sessions[code].connected_users
        /\ sessions[code].connected_users[other] = username
        /\ handle_submit_athlete(sid, code, "Messi", "Q2736", username, Missing).out
              = SubmissionError(sid, "auth_failed")

\* what each of the five host-only handlers does with one event
HostOnlyOutcomes(sid, code, username, target_username) ==
    { handle_start_game(sid, code, username),
      handle_pause_game(sid, code, username),
      handle_resume_game(sid, code, username),
      handle_end_game_early(sid, code, username),
      handle_remove_player(sid, code, username, target_username) }

\* C21: start, pause, resume, early end and remove-player change the
\* state only when the calling socket id is bound in the session to the
\* username given and that username is the session's host; every other
\* call is answered with one error to the caller and leaves the sessions,
\* the timer registry and the timer tasks as they were.
C21_HostOnly ==
    \A sid \in Sids, code \in CodeInputs, username \in UserInputs, target \in UserInputs :
        LET authorized == /\ code \in DOMAIN sessions
                          /\ sid \in DOMAIN sessions[code].connected_users
                          /\ sessions[code].connected_users[sid] = username
                          /\ sessions[code].host_username = username
        IN  ~authorized =>
                \A o \in HostOnlyOutcomes(sid, code, username, target) :
                    /\ o.sessions = sessions
                    /\ o.timer_tasks = timer_tasks
                    /\ o.timers = timers
                    /\ o.starting = starting
                    /\ Len(o.out) = 1
                    /\ o.out[1].event = "error"
                    /\ o.out[1].room = sid

\* a running game with its host and a second player connected: the
\* player's own pause_game and a remove_player sent under the host's name
\* from the player's socket are refused, the host's pause_game is not
C21_Witness ==
    \E code \in DOMAIN sessions, host_sid \in Sids, sid \in Sids, username \in Users :
        LET host == sessions[code].host_username
        IN  /\ Running(code)
            /\ username # host
            /\ ConnectedName(sessions[code], host_sid) = host
            /\ ConnectedName(sessions[code], sid) = username
            /\ handle_pause_game(sid, code, username).out
                  = Error(sid, "Only the host can pause the game")
            /\ handle_remove_player(sid, code, host, username).out
                  = Error(sid, "Authentication failed")
            /\ handle_pause_game(host_sid, code, host).sessions # sessions

\* C22: a submission with all its fields, a sport of the cache and a name
\* the sanitizer passes, addressed to a code no session has, is answered
\* submission_error session_not_found.
C22_UnknownSessionReported ==
    \A sid \in Sids, code \in Codes \cup {UnknownCode}, name \in RawNames,
       username \in Users, hint \in Hints :
        /\ code \notin DOMAIN sessions
        /\ sanitize_athlete_name(name).ok
        => handle_submit_athlete(sid, code, name, "Q2736", username, hint).out
              = SubmissionError(sid, "session_not_found")

\* the answers of the resolver that report ambiguity
Ambiguities(hint) ==
    {res \in Resolutions(hint) : res.error = "disambiguation_required" /\ res.multiple_matches}
\* the handler leaves the accepted submissions and the dedup sets of `code` alone
NotCommitted(ss, code) ==
    /\ ss[code].athletes = sessions[code].athletes
    /\ ss[code].athlete_names = sessions[code].athlete_names
    /\ ss[code].athlete_entity_ids = sessions[code].athlete_entity_ids

\* C23: when the resolver reports ambiguity with candidates C, the reply
\* is decided by the candidates that are not in the session's entity-id
\* set: none -> `duplicate`; some but not all -> `disambiguation_required`
\* with requires_hint and the already-submitted caveat; all ->
\* `disambiguation_required` with requires_hint and no caveat.  No Athlete
\* is committed in any of the three.
C23_AmbiguityByAvailability ==
    \A t \in DOMAIN submits :
        submits[t].pc = "validating" =>
            \A res \in Ambiguities(submits[t].hint) :
                LET code == submits[t].code
                    sid == submits[t].sid
                    candidates == Range(res.all_matching_ids)
                    absent == candidates \ sessions[code].athlete_entity_ids
                    o == submit_athlete_resolved(submits[t], res)
                IN  /\ NotCommitted(o.sessions, code)
                    /\ o.task.result = IF absent = {} THEN "duplicate"
                                       ELSE "disambiguation_required"
                    /\ o.task.out = IF absent = {} THEN SubmissionError(sid, "duplicate")
                                    ELSE IF absent # candidates THEN RequiresHint(sid, TRUE)
                                    ELSE RequiresHint(sid, FALSE)

\* a submission is being resolved in a session that holds one of the two
\* candidates the resolver may report for it
C23_Witness ==
    \E t \in DOMAIN submits :
        /\ submits[t].pc = "validating"
        /\ \E res \in Ambiguities(submits[t].hint) :
              LET taken == Range(res.all_matching_ids)
                              \cap sessions[submits[t].code].athlete_entity_ids
              IN  /\ Cardinality(taken) = 1
                  /\ Len(res.all_matching_ids) = 2
                  /\ submit_athlete_resolved(submits[t], res).task.out
                        = RequiresHint(submits[t].sid, TRUE)

\* C24: the ambiguity check comes before the ordinary duplicate check.
\* A name resubmitted without a hint, whose resolution is ambiguous with a
\* first candidate the session already holds (under that normalized name)
\* and another candidate it does not hold, is rejected
\* `disambiguation_required` with the already-submitted caveat, not
\* `duplicate`, and leaves no record of a duplicate.
C24_AmbiguityBeforeDuplicate ==
    \A t \in DOMAIN submits :
        submits[t].pc = "validating" /\ ~Truthy(submits[t].hint) =>
            \A res \in Ambiguities(Missing) :
                LET code == submits[t].code
                    held == sessions[code].athlete_entity_ids
                    o == submit_athlete_resolved(submits[t], res)
                IN  /\ res.entity_id \in held
                    /\ submits[t].normalized \in sessions[code].athlete_names
                    /\ Range(res.all_matching_ids) \ held # {}
                    => /\ o.task.result = "disambiguation_required"
                       /\ o.task.out = RequiresHint(submits[t].sid, TRUE)
                       /\ o.sessions = sessions

\* the session holds Lionel Messi under the name "messi"; "Messi" is
\* submitted again without a hint and the resolver may answer that it is
\* ambiguous between him (first) and a candidate the session does not
\* hold: the ordinary duplicate check would find both the entity and the name
C24_Witness ==
    \E t \in DOMAIN submits :
        /\ submits[t].pc = "validating"
        /\ ~Truthy(submits[t].hint)
        /\ \E res \in Ambiguities(Missing) :
              LET code == submits[t].code
              IN  /\ \E i \in 1..Len(sessions[code].athletes) :
                        /\ sessions[code].athletes[i].entity_id = res.entity_id
                        /\ sessions[code].athletes[i].normalized_name = submits[t].normalized
                  /\ is_duplicate(sessions, code, submits[t].normalized, res.entity_id)
                  /\ is_duplicate(sessions, code, submits[t].normalized, Missing)
                  /\ Range(res.all_matching_ids) \ sessions[code].athlete_entity_ids # {}
                  /\ submit_athlete_resolved(submits[t], res).task.result
                        = "disambiguation_required"

\* Wikidata verifies several candidates for the name
SeveralCandidates(w) == ~w.fails /\ Len(w.verified) > 1
\* the hint picks exactly one of the verified candidates
Narrows(w, hint) == Truthy(hint) /\ Cardinality(Range(w.verified) \cap w.hinted) = 1

\* C25: a submission whose name resolves to several candidates and whose
\* hint does not narrow them to exactly one is never accepted: it ends in
\* `duplicate` or `disambiguation_required`, with the reply the same
\* submission would get without a hint, and no Athlete is committed.
C25_UnhelpfulHintStaysAmbiguous ==
    \A t \in DOMAIN submits :
        submits[t].pc = "validating" =>
            \A w \in Wikidata :
                LET task == submits[t]
                    o == submit_athlete_resolved(task, validate_athlete_full(w, task.hint))
                    unhinted == submit_athlete_resolved([task EXCEPT !.hint = Missing],
                                                        validate_athlete_full(w, Missing))
                IN  SeveralCandidates(w) /\ ~Narrows(w, task.hint) =>
                        /\ o.task.result \in {"duplicate", "disambiguation_required"}
                        /\ o.task.result = unhinted.task.result
                        /\ NotCommitted(o.sessions, task.code)

\* the turn rejects the submission: one submission_error to the caller, one
\* more rejected submission, and nothing else of the sessions changed
RejectedOnly(o, task) ==
    /\ Len(o.task.out) = 1
    /\ o.task.out[1].event = "submission_error"
    /\ o.task.out[1].room = task.sid
    /\ o.task.result # "accepted"
    /\ NotCommitted(o.sessions, task.code)
    /\ [o.sessions EXCEPT ![task.code].rejected_submissions =
                              sessions[task.code].rejected_submissions] = sessions

\* C26: when the resolution of a submission fails (a request to Wikidata
\* raises, validate_athlete_full answers validation_failed), the
\* submission is rejected to its caller and not committed, and the session
\* is otherwise as it was: status, pause, end, connections.  That holds of
\* the handler as it runs and of the statements under its lock.
C26_FailedResolutionRejected ==
    \A t \in DOMAIN submits :
        submits[t].pc = "validating" =>
            \A w \in Wikidata :
                LET task == submits[t]
                    res == validate_athlete_full(w, task.hint)
                IN  w.fails =>
                        /\ res.error = "validation_failed" /\ ~res.is_valid
                        /\ RejectedOnly(submit_athlete_resolved(task, res), task)
                        /\ RejectedOnly(locked_section(task, res), task)

\* a submission awaits the resolver in a running session and a request to
\* Wikidata may fail: the handler replies validation_failed, the
\* statements under the lock would do the same
C26_Witness ==
    \E t \in DOMAIN submits, w \in Wikidata :
        /\ submits[t].pc = "validating"
        /\ w.fails
        /\ Running(submits[t].code)
        /\ submit_athlete_resolved(submits[t], validate_athlete_full(w, submits[t].hint)).task.out
              = SubmissionError(submits[t].sid, "validation_failed")
        /\ locked_section(submits[t], validate_athlete_full(w, submits[t].hint)).task.result
              = "validation_failed"

DomainReasons == {"invalid_athlete", "wrong_sport", "disambiguation_required", "duplicate"}

\* C27: a submission rejected for a domain reason (the resolver answers
\* invalid_athlete or wrong_sport, or the handler replies
\* disambiguation_required or duplicate) is replied to with that reason
\* and appends exactly one rejected submission with that reason, its name
\* and its submitter to the session's rejected_submissions.
C27_DomainRejectionRecorded ==
    [][\A t \in DOMAIN submits :
          Resolves(t) =>
              LET code == submits[t].code
                  old == sessions[code].rejected_submissions
                  new == sessions'[code].rejected_submissions
                  reason == IF submits'[t].error \in {"invalid_athlete", "wrong_sport"}
                            THEN submits'[t].error
                            ELSE submits'[t].result
              IN  reason \in DomainReasons =>
                      /\ submits'[t].result = reason
                      /\ Len(new) = Len(old) + 1
                      /\ SubSeq(new, 1, Len(old)) = old
                      /\ new[Len(new)].reason = reason
                      /\ new[Len(new)].name = submits[t].athlete_name
                      /\ new[Len(new)].username = submits[t].username
      ]_vars

SidsOf(s, username) == {sid \in DOMAIN s.connected_users : s.connected_users[sid] = username}

\* C30: after connect(code, sid, name) succeeds, sid is the only socket
\* id mapped to name, name has no disconnect record, and the mappings of
\* all other names are unchanged.
C30_ConnectFrame ==
    \A code \in DOMAIN sessions, sid \in Sids, name \in Users :
        LET r == add_connected_user(sessions, code, sid, name)
            old == sessions[code]
            new == r.sessions[code]
        IN  /\ r.ret
            /\ SidsOf(new, name) = {sid}
            /\ name \notin DOMAIN new.disconnected_users
            /\ \A other \in Users \ {name} : SidsOf(new, other) = SidsOf(old, other)

\* C30 as amended: after connect(code, sid, name) succeeds, sid is the
\* only socket id mapped to name, name has no disconnect record, and every
\* other socket id that was mapped to another name is mapped to it still;
\* sid itself is no longer mapped to the name it had, and nothing but the
\* connections and the disconnect record of name has changed.
C30_ConnectFrameAmended ==
    \A code \in DOMAIN sessions, sid \in Sids, name \in Users :
        LET r == add_connected_user(sessions, code, sid, name)
            old == sessions[code]
            new == r.sessions[code]
        IN  /\ r.ret
            /\ SidsOf(new, name) = {sid}
            /\ name \notin DOMAIN new.disconnected_users
            /\ \A other \in Users \ {name} :
                  SidsOf(new, other) = SidsOf(old, other) \ {sid}
            /\ \A other \in Users \ {name} :
                  /\ other \in DOMAIN new.disconnected_users
                        <=> other \in DOMAIN old.disconnected_users
                  /\ other \in DOMAIN old.disconnected_users =>
                        new.disconnected_users[other] = old.disconnected_users[other]
            /\ r.sessions = [sessions EXCEPT
                                 ![code].connected_users = new.connected_users,
                                 ![code].disconnected_users = new.disconnected_users]

\* one socket holds the name and another socket holds another name:
\* connecting the second socket under the name removes the first socket
\* and rebinds the second, which is then the only socket of the session
C30_Witness ==
    \E code \in DOMAIN sessions, sid \in Sids, stale \in Sids, name \in Users :
        LET old == sessions[code]
            new == add_connected_user(sessions, code, sid, name).sessions[code]
        IN  /\ stale # sid
            /\ ConnectedName(old, stale) = name
            /\ ConnectedName(old, sid) \in Users \ {name}
            /\ DOMAIN new.connected_users = {sid}
            /\ new.connected_users[sid] = name

\* the accepted submissions of a session that a name submitted
AcceptedBy(s, username) == SelectSeq(s.athletes, LAMBDA a : a.submitted_by = username)

\* C31: disconnect(code, sid) on a mapped sid removes the mapping, records
\* the freed name in the disconnected table with the current time and the
\* number of accepted submissions by that name at that moment, and returns
\* the name; on an unknown session or an unmapped sid it returns none and
\* changes nothing.
C31_Disconnect ==
    \A code \in CodeInputs, sid \in Sids :
        LET r == remove_connected_user(sessions, code, sid, now)
        IN  IF code \in DOMAIN sessions /\ sid \in DOMAIN sessions[code].connected_users
            THEN LET old == sessions[code]
                     new == r.sessions[code]
                     name == old.connected_users[sid]
                 IN  /\ r.ret = name
                     /\ DOMAIN new.connected_users = (DOMAIN old.connected_users) \ {sid}
                     /\ \A other \in DOMAIN new.connected_users :
                           new.connected_users[other] = old.connected_users[other]
                     /\ name \in DOMAIN new.disconnected_users
                     /\ new.disconnected_users[name].disconnected_at = now
                     /\ new.disconnected_users[name].submissions_count
                            = Len(AcceptedBy(old, name))
                     /\ new.athletes = old.athletes
            ELSE r.ret = Missing /\ r.sessions = sessions

\* a socket is mapped to a name that has an accepted submission, as has
\* another name, and the clock has advanced since the session was created
C31_Witness ==
    \E code \in DOMAIN sessions, sid \in Sids :
        LET s == sessions[code]
            name == ConnectedName(s, sid)
            r == remove_connected_user(sessions, code, sid, now)
        IN  /\ now > s.created_at
            /\ name \in Users
            /\ Len(AcceptedBy(s, name)) = 1
            /\ Len(s.athletes) = 2
            /\ r.ret = name
            /\ r.sessions[code].disconnected_users[name].submissions_count = 1

\* C32: in every reachable state of a session, after any sequence of
\* joins, disconnects and removals, no two socket ids are mapped to the same
\* name, and no name is at once in connected_users and in
\* disconnected_users.
C32_OneSocketPerName ==
    \A code \in DOMAIN sessions :
        LET s == sessions[code]
        IN  /\ \A name \in Users : Cardinality(SidsOf(s, name)) <= 1
            /\ \A name \in DOMAIN s.disconnected_users : SidsOf(s, name) = {}

\* one name is connected, the other name has a disconnect record that is
\* older than the reservation window, and the connected name has a
\* submission: joins and a disconnect have happened
C32_Witness ==
    \E code \in DOMAIN sessions, name \in Users, other \in Users :
        LET s == sessions[code]
        IN  /\ Cardinality(SidsOf(s, name)) = 1
            /\ other \in DOMAIN s.disconnected_users
            /\ now - s.disconnected_users[other].disconnected_at
                   >= GraceSeconds * UnitsPerSecond
            /\ Len(AcceptedBy(s, name)) > 0

\* C33: a join for a name arriving on a new socket id while an older
\* socket id is still mapped to the name is not rejected as username-taken:
\* the join succeeds, the old mapping is removed and the new one installed.
C33_StaleSocketReplaced ==
    \A code \in DOMAIN sessions, sid \in Sids, name \in Users :
        LET s == sessions[code]
            o == handle_join_session(sid, code, name)
        IN  /\ s.status # "completed"
            /\ SidsOf(s, name) # {}
            /\ sid \notin SidsOf(s, name)
            => /\ o.out[1].event = "session_joined"
               /\ SidsOf(o.sessions[code], name) = {sid}

\* the leaderboard's scores of a name
ScoresOf(leaderboard, username) ==
    {leaderboard[i].score : i \in {j \in 1..Len(leaderboard) : leaderboard[j].username = username}}

\* C34: after a participant has disconnected, a later join under its name
\* from any socket id is accepted both within and after the 5-minute
\* window (no other socket holding the name), it is flagged reconnected
\* exactly when the disconnect record is younger than the window, and the
\* name's submission count and leaderboard score after the join equal the
\* number of submissions it had accepted before it disconnected.
C34_ReconnectKeepsScore ==
    \A code \in DOMAIN sessions, sid \in Sids, name \in Users :
        LET s == sessions[code]
            o == handle_join_session(sid, code, name)
        IN  /\ name \in DOMAIN s.disconnected_users
            /\ s.status # "completed"
            /\ ~is_username_taken_by_other(sessions, code, name, sid)
            => LET record == s.disconnected_users[name]
                   joined == o.out[1]
               IN  /\ joined.event = "session_joined"
                   /\ joined.room = sid
                   /\ ConnectedName(o.sessions[code], sid) = name
                   /\ joined.msg = "reconnected"
                         <=> now - record.disconnected_at < 300 * UnitsPerSecond
                   /\ Val(joined.val) = record.submissions_count
                   /\ ScoresOf(get_leaderboard(o.sessions, code), name)
                         = {record.submissions_count}

\* a name with an accepted submission disconnected exactly one window ago
\* and the other name, with another score, is connected
C34_Witness ==
    \E code \in DOMAIN sessions, sid \in Sids, name \in Users :
        LET s == sessions[code]
            o == handle_join_session(sid, code, name)
        IN  /\ name \in DOMAIN s.disconnected_users
            /\ s.disconnected_users[name].submissions_count = 1
            /\ now - s.disconnected_users[name].disconnected_at = 300 * UnitsPerSecond
            /\ Len(s.athletes) = 1
            /\ sid \in DOMAIN s.connected_users
            /\ o.out[1].event = "session_joined"
            /\ o.out[1].msg = "joined"

\* C35: the roster of get_users_with_status lists a name as disconnected
\* only while its disconnect record is within the window; a name whose
\* record is older than the window and that is not connected is absent
\* from the roster.
C35_RosterWithinGrace ==
    \A code \in DOMAIN sessions, name \in Users :
        LET s == sessions[code]
            roster == get_users_with_status(sessions, code)
            listed == {i \in 1..Len(roster) : roster[i].username = name}
            within == /\ name \in DOMAIN s.disconnected_users
                      /\ now - s.disconnected_users[name].disconnected_at
                             < 300 * UnitsPerSecond
        IN  /\ \A i \in listed : ~roster[i].is_connected => within
            /\ SidsOf(s, name) = {} /\ ~within => listed = {}

\* C36: remove_user_by_username on a connected name deletes that name's
\* mapping and returns its socket id; on a name that is only in
\* disconnected_users it deletes the record and returns none; on an unknown
\* name or session it returns none and changes nothing; in every case the
\* mappings of all other participants, the host included, are unchanged.
C36_RemoveByName ==
    \A code \in CodeInputs, target \in Users :
        LET r == remove_user_by_username(sessions, code, target)
        IN  IF code \notin DOMAIN sessions
            THEN r.ret = Missing /\ r.sessions = sessions
            ELSE LET old == sessions[code]
                     new == r.sessions[code]
                     OthersKept ==
                         /\ \A other \in Users \ {target} :
                               /\ SidsOf(new, other) = SidsOf(old, other)
                               /\ other \in DOMAIN new.disconnected_users
                                     <=> other \in DOMAIN old.disconnected_users
                               /\ other \in DOMAIN old.disconnected_users =>
                                     new.disconnected_users[other]
                                        = old.disconnected_users[other]
                         /\ new.host_username = old.host_username
                 IN  IF SidsOf(old, target) # {}
                     THEN /\ SidsOf(old, target) = {r.ret}
                          /\ DOMAIN new.connected_users
                                = (DOMAIN old.connected_users) \ {r.ret}
                          /\ new.disconnected_users = old.disconnected_users
                          /\ OthersKept
                     ELSE IF target \in DOMAIN old.disconnected_users
                     THEN /\ r.ret = Missing
                          /\ target \notin DOMAIN new.disconnected_users
                          /\ new.connected_users = old.connected_users
                          /\ OthersKept
                     ELSE r.ret = Missing /\ r.sessions = sessions

\* the host and another player are connected and the game is running: the
\* player is removed and the host stays
C36_Witness ==
    \E code \in DOMAIN sessions, target \in Users :
        LET s == sessions[code]
            r == remove_user_by_username(sessions, code, target)
        IN  /\ s.status = "active"
            /\ target # s.host_username
            /\ SidsOf(s, s.host_username) # {}
            /\ r.ret \in Sids
            /\ SidsOf(r.sessions[code], target) = {}
            /\ SidsOf(r.sessions[code], s.host_username) = SidsOf(s, s.host_username)

\* the list `new` is the list `old` with elements appended
Extends(new, old) == Len(new) >= Len(old) /\ SubSeq(new, 1, Len(old)) = old

\* C37: accepted submissions and rejected-submission records are
\* append-only: in every step the athletes and the rejected_submissions of
\* a session only grow at the end; no element is removed, reordered or
\* modified, and no session is dropped.
C37_AppendOnly ==
    [][\A code \in DOMAIN sessions :
          /\ code \in DOMAIN sessions'
          /\ Extends(sessions'[code].athletes, sessions[code].athletes)
          /\ Extends(sessions'[code].rejected_submissions,
                     sessions[code].rejected_submissions)
      ]_vars

\* two accepted submissions and two rejected ones, of different reasons
C37_Witness ==
    \E code \in DOMAIN sessions :
        LET s == sessions[code]
        IN  /\ Len(s.athletes) = 2
            /\ Len(s.rejected_submissions) = 2
            /\ s.rejected_submissions[1].reason # s.rejected_submissions[2].reason

\* the sum of the scores of a leaderboard
RECURSIVE SumScores(_)
SumScores(leaderboard) ==
    IF leaderboard = <<>> THEN 0
    ELSE leaderboard[1].score + SumScores(Tail(leaderboard))

\* the names a session knows: connected, with a disconnect record, or with
\* an accepted submission
KnownNames(s) ==
    {u \in Users : \/ SidsOf(s, u) # {}
                    \/ u \in DOMAIN s.disconnected_users
                    \/ Len(AcceptedBy(s, u)) > 0}

\* C38: the leaderboard lists every name that is connected, in the
\* disconnected table, or has an accepted submission exactly once, with
\* score equal to that name's number of accepted submissions, ordered by
\* score descending then username ascending, with ranks exactly 1..n in
\* list order; the scores sum to the number of accepted submissions.
C38_Leaderboard ==
    \A code \in DOMAIN sessions :
        LET s == sessions[code]
            leaderboard == get_leaderboard(sessions, code)
            n == Len(leaderboard)
        IN  /\ n = Cardinality(KnownNames(s))
            /\ {leaderboard[i].username : i \in 1..n} = KnownNames(s)
            /\ \A i \in 1..n :
                  /\ leaderboard[i].score = Len(AcceptedBy(s, leaderboard[i].username))
                  /\ leaderboard[i].rank = i
            /\ \A i \in 1..n, j \in 1..n :
                  i < j => \/ leaderboard[i].score > leaderboard[j].score
                           \/ /\ leaderboard[i].score = leaderboard[j].score
                              /\ NameIndex(leaderboard[i].username)
                                    < NameIndex(leaderboard[j].username)
            /\ SumScores(leaderboard) = Len(s.athletes)

\* bob, who is neither connected nor in the disconnected table, leads with
\* his accepted submission; alice, connected and without one, is second
C38_Witness ==
    \E code \in DOMAIN sessions :
        LET s == sessions[code]
            leaderboard == get_leaderboard(sessions, code)
        IN  /\ SidsOf(s, "bob") = {}
            /\ "bob" \notin DOMAIN s.disconnected_users
            /\ SidsOf(s, "alice") # {}
            /\ Len(leaderboard) = 2
            /\ leaderboard[1].username = "bob"
            /\ leaderboard[1].score = 1
            /\ leaderboard[2].score = 0

\* C39: in every reachable state of a session the dedup sets mirror the
\* accepted submissions: athlete_entity_ids is exactly the set of the
\* entity ids of the athletes that have one, athlete_names is exactly the
\* set of their normalized names, and no two athletes of the sequence carry
\* the same entity id.
C39_DedupSetsMirrorAthletes ==
    \A code \in DOMAIN sessions :
        LET s == sessions[code]
            n == Len(s.athletes)
        IN  /\ s.athlete_entity_ids
                  = {s.athletes[i].entity_id :
                        i \in {j \in 1..n : Truthy(s.athletes[j].entity_id)}}
            /\ s.athlete_names = {s.athletes[i].normalized_name : i \in 1..n}
            /\ \A i \in 1..n, j \in 1..n :
                  i # j /\ Truthy(s.athletes[i].entity_id)
                      => s.athletes[i].entity_id # s.athletes[j].entity_id

\* the session holds two athletes of one normalized name with different
\* entity ids, and a submission of that name has been rejected as well
C39_Witness ==
    \E code \in DOMAIN sessions :
        LET s == sessions[code]
        IN  /\ Len(s.athletes) = 2
            /\ s.athlete_entity_ids = Entities
            /\ s.athlete_names = {"messi"}
            /\ Len(s.rejected_submissions) > 0

\* C40: after the disconnect handler has run for a socket id, that socket
\* id is mapped in no session's connected_users, also when it had joined
\* more than one session.
C40_DisconnectedEverywhere ==
    \A sid \in Sids :
        \A code \in find_session_by_socket(sessions, sid) :
            LET o == handle_disconnect(sid, code)
            IN  \A c \in DOMAIN o.sessions : sid \notin DOMAIN o.sessions[c].connected_users

====
